---- MODULE Spec2Model ----
(***************************************************************************)
(* ScreenR: the project assembler (src/core/assembler.ts), the browser     *)
(* recorder (src/core/browser.ts), the element detector, the Studio server *)
(* (src/app/server.ts: projects, tutorials, recording sessions), the       *)
(* playback engine and the platform server (users, tutorial versions), as  *)
(* state machines.                                                         *)
(*                                                                         *)
(* Conventions.                                                            *)
(*  - An optional value (a `?:` field, or `undefined`) is a sequence of    *)
(*    length 0 (absent) or 1 (present).                                    *)
(*  - A JavaScript array that is passed by reference lives in `arrays`     *)
(*    under a reference name; a field that holds such an array holds the   *)
(*    name.  A field of a returned Project that may alias an input array   *)
(*    is a record [ref, val]: ref # NoRef aliases arrays[ref], ref = NoRef *)
(*    means an array created by the call itself, with contents val.        *)
(*  - A template string `prefix-${x}` is the pair <<prefix, x>>.           *)
(*  - Step ids are unique within one step list.                            *)
(***************************************************************************)
EXTENDS Integers, Sequences, FiniteSets, TLC

VARIABLES
    input,      \* the AssemblerInput the caller holds
    arrays,     \* contents of the caller's arrays, by reference name
    files,      \* paths that exist on the file system
    now,        \* Date.now(), in clock ticks
    nextUuid,   \* source of uuid(): the next identity never handed out
    outcome,    \* how the last assembleProject call ended: none | ok | error
    returned,   \* the Projects returned so far, oldest first
    disk,       \* project directories created under outputDir
    session,    \* the recorder's RecordingSession (startTime, timestamps)
    script,     \* the step list executeSteps was called with
    pc,         \* the recorder: idle | ready | between | inside | done | failed
    cursor,     \* index of the step executeSteps is at
    stepStart,  \* the local stepStart of the executeStep call in progress
    awaiting,   \* the page operations the executeStep call in progress still awaits
    store,      \* data/projects/<id>/project.json, by project id
    reply,      \* HTTP status of the last Studio response (0: none yet)
    loaded,     \* the player: the Project document loaded, if any
    mode,       \* the player: the LearningMode
    phase,      \* the player: Idle | Playing | WaitingForInput | Correct | Complete
    isession,   \* the player: the InteractiveSession, if one was created
    wrong,      \* the player: wrong attempts on the current InteractiveStep
    hintShown,  \* the player: whether the current step's hint is displayed
    viewport,   \* the player: the current viewport, in pixels
    active,     \* the player: the layer entries active at the last tick
    feedback,   \* the player: the feedback text on display
    lastCall,   \* the player: the last call received and the phase it found
    recordingSessions, \* the Studio server's recordingSessions Map, by session id
    tasks,      \* the startRecording calls in progress: locals and the await reached
    db,         \* the platform database: tables tutorials, tutorial_versions, users
    tokens,     \* the payloads of the JWTs signed so far
    lastReq,    \* the last platform request: route, caller, target, status
    probe       \* a call of the element detector: element, viewport, position returned

vars == <<input, arrays, files, now, nextUuid, outcome, returned, disk,
          session, script, pc, cursor, stepStart, awaiting, store, reply,
          loaded, mode, phase, isession, wrong, hintShown, viewport, active,
          feedback, lastCall, recordingSessions, tasks, db, tokens, lastReq,
          probe>>

asmVars == <<input, arrays, files, nextUuid, outcome, returned, disk>>
recVars == <<session, script, pc, cursor, stepStart, awaiting>>
stuVars == <<store, reply>>
engVars == <<loaded, mode, phase, isession, wrong, hintShown, viewport, active,
             feedback, lastCall>>
tutVars == <<recordingSessions, tasks>>
dbVars  == <<db, tokens, lastReq>>
detVars == <<probe>>
srvVars == <<tutVars, dbVars, detVars>>

(***************************************************************************)
(* Bounds of the model.                                                    *)
(***************************************************************************)
MaxSteps == 2
MaxTs == 2
MaxTime == 1
MaxCalls == 2
MaxClock == 2
MaxLen == 3
MaxProjects == 2
MaxEvents == 3
MaxTick == 2

(***************************************************************************)
(* Data.                                                                   *)
(***************************************************************************)
NoRef == "undefined"

StepAction == {"navigate", "click", "type", "wait", "scroll", "hover", "screenshot"}

StepIdOf(i) == <<"step-1", "step-2", "step-3", "step-4", "step-5", "step-6">>[i]
UnknownStepId == "step-x"

NarrationOf(i) == <<"narration one", "narration two", "narration three",
                    "narration four", "narration five", "narration six">>[i]

DescriptionOf(action) ==
    CASE action = "navigate"   -> "Open Gmail"
      [] action = "click"      -> "Compose Button"
      [] action = "type"       -> "Subject Field"
      [] action = "wait"       -> "Wait For Inbox"
      [] action = "scroll"     -> "Scroll Down"
      [] action = "hover"      -> "Send Button"
      [] action = "screenshot" -> "Capture Screen"

\* String.prototype.toLowerCase on the descriptions above
toLowerCase(s) ==
    CASE s = "Open Gmail"     -> "open gmail"
      [] s = "Compose Button" -> "compose button"
      [] s = "Subject Field"  -> "subject field"
      [] s = "Wait For Inbox" -> "wait for inbox"
      [] s = "Scroll Down"    -> "scroll down"
      [] s = "Send Button"    -> "send button"
      [] s = "Capture Screen" -> "capture screen"
      [] OTHER                -> s

\* JavaScript truthiness of a string, and of an optional value
Truthy(s) == s # ""
Present(opt) == opt # <<>>

RECURSIVE SeqsUpTo(_, _)
SeqsUpTo(V, n) ==
    IF n = 0 THEN {<<>>}
    ELSE LET S == SeqsUpTo(V, n - 1)
         IN  S \cup {Append(s, v) : s \in {x \in S : Len(x) = n - 1}, v \in V}

\* An AutomationStep, without the fields only the recorder reads
HintCircle == [x |-> 50, y |-> 40, type |-> "circle"]
HintPulse == [x |-> 50, y |-> 55, type |-> "pulse"]

StepShapes(actions, highlights) ==
    [action : actions, narrated : BOOLEAN, highlight : highlights]

MkStep(i, shape) ==
    [id          |-> StepIdOf(i),
     action      |-> shape.action,
     description |-> DescriptionOf(shape.action),
     narration   |-> IF shape.narrated THEN NarrationOf(i) ELSE "",
     highlight   |-> shape.highlight]

StepLists(shapes, n) ==
    {[i \in 1..Len(s) |-> MkStep(i, s[i])] : s \in SeqsUpTo(shapes, n)}

\* every action, with and without narration, with and without a hint
WideSteps == StepLists(StepShapes(StepAction, {<<>>, <<HintCircle>>}), MaxSteps)
\* clicks with a hint, with and without narration
NarrowSteps == StepLists(StepShapes({"click"}, {<<HintPulse>>}), MaxSteps)

\* A StepTimestamp
StepTimestamp(ids) ==
    {[stepId |-> id, startTime |-> s, endTime |-> e] :
        id \in ids, s \in 0..MaxTime, e \in 0..MaxTime}

WellFormedTs(ids) == {t \in StepTimestamp(ids) : t.startTime <= t.endTime}

StepIds(steps) == {steps[i].id : i \in 1..Len(steps)}

\* any list of timestamps, for known and unknown steps, in any order
WideTimestamps(steps) ==
    SeqsUpTo(WellFormedTs(StepIds(steps) \cup {UnknownStepId}), MaxTs)

\* one timestamp per step, in step order, back to back
UnitTimestamps(steps) ==
    [i \in 1..Len(steps) |->
        [stepId |-> steps[i].id, startTime |-> i - 1, endTime |-> i]]


(***************************************************************************)
(* assembler.ts: the generators.                                           *)
(***************************************************************************)
\* Array.prototype.find((t) => t.stepId === id): the first match, or undefined
FindTimestamp(timestamps, id) ==
    LET hits == {j \in 1..Len(timestamps) : timestamps[j].stepId = id}
    IN  IF hits = {} THEN <<>>
        ELSE <<timestamps[CHOOSE j \in hits : \A k \in hits : j <= k]>>

RECURSIVE SubtitlesFrom(_, _, _)
SubtitlesFrom(steps, timestamps, i) ==
    IF i > Len(steps) THEN <<>>
    ELSE LET step == steps[i]
             timestamp == FindTimestamp(timestamps, step.id)
         IN  (IF Present(timestamp) /\ Truthy(step.narration)
              THEN <<[id    |-> <<"subtitle", step.id>>,
                      start |-> timestamp[1].startTime,
                      end   |-> timestamp[1].endTime,
                      text  |-> step.narration]>>
              ELSE <<>>)
             \o SubtitlesFrom(steps, timestamps, i + 1)

\* a lookup by position instead of by stepId
RECURSIVE SubtitlesByPosition(_, _, _)
SubtitlesByPosition(steps, timestamps, i) ==
    IF i > Len(steps) THEN <<>>
    ELSE LET step == steps[i]
             timestamp == IF i <= Len(timestamps) THEN <<timestamps[i]>> ELSE <<>>
         IN  (IF Present(timestamp) /\ Truthy(step.narration)
              THEN <<[id    |-> <<"subtitle", step.id>>,
                      start |-> timestamp[1].startTime,
                      end   |-> timestamp[1].endTime,
                      text  |-> step.narration]>>
              ELSE <<>>)
             \o SubtitlesByPosition(steps, timestamps, i + 1)

\* one subtitle per timestamp instead of one per step
generateSubtitlesPerTimestamp(steps, timestamps) ==
    [j \in 1..Len(timestamps) |->
        [id    |-> <<"subtitle", timestamps[j].stepId>>,
         start |-> timestamps[j].startTime,
         end   |-> timestamps[j].endTime,
         text  |-> ""]]

generateSubtitlesByPosition(steps, timestamps) ==
    SubtitlesByPosition(steps, timestamps, 1)

generateSubtitles(steps, timestamps) == SubtitlesFrom(steps, timestamps, 1)

RECURSIVE HighlightsFrom(_, _, _)
HighlightsFrom(steps, timestamps, i) ==
    IF i > Len(steps) THEN <<>>
    ELSE LET step == steps[i]
             timestamp == FindTimestamp(timestamps, step.id)
         IN  (IF Present(step.highlight) /\ Present(timestamp)
              THEN <<[id     |-> <<"highlight", step.id>>,
                      start  |-> timestamp[1].startTime,
                      end    |-> timestamp[1].endTime,
                      x      |-> step.highlight[1].x,
                      y      |-> step.highlight[1].y,
                      type   |-> step.highlight[1].type,
                      width  |-> 5,
                      height |-> 5]>>
              ELSE <<>>)
             \o HighlightsFrom(steps, timestamps, i + 1)

\* the derived highlights at the size of a click target
generateHighlightsSized(steps, timestamps) ==
    LET hs == HighlightsFrom(steps, timestamps, 1)
    IN  [i \in 1..Len(hs) |-> [hs[i] EXCEPT !.width = 10, !.height = 8]]

generateHighlights(steps, timestamps) == HighlightsFrom(steps, timestamps, 1)

\* a chapter for every key point, starting where the step ends
generateSummaryPerKeyPoint(steps, timestamps) ==
    LET NotWait(s) == s.action # "wait"
        points == SelectSeq(steps, NotWait)
        EndOf(step) ==
            LET timestamp == FindTimestamp(timestamps, step.id)
            IN  IF Present(timestamp) THEN timestamp[1].endTime ELSE 0
    IN  [keyPoints   |-> [i \in 1..Len(points) |-> points[i].description],
         chapters    |-> [i \in 1..Len(points) |->
                            [title     |-> points[i].description,
                             startTime |-> EndOf(points[i])]],
         generatedBy |-> "ai"]

\* steps.filter(...) is SelectSeq: the kept elements, in order
generateSummary(steps, timestamps) ==
    LET NotWait(s) == s.action # "wait"
        Major(s) == s.action \in {"navigate", "click"}
        points == SelectSeq(steps, NotWait)
        majors == SelectSeq(steps, Major)
        StartOf(step) ==
            LET timestamp == FindTimestamp(timestamps, step.id)
            IN  IF Present(timestamp) /\ timestamp[1].startTime # 0
                THEN timestamp[1].startTime ELSE 0
    IN  [keyPoints   |-> [i \in 1..Len(points) |-> points[i].description],
         chapters    |-> [i \in 1..Len(majors) |->
                            [title     |-> majors[i].description,
                             startTime |-> StartOf(majors[i])]],
         generatedBy |-> "ai"]

\* the click target at the size of a derived highlight, one attempt allowed
InteractiveStepOfSmall(step, order) ==
    [id          |-> <<"interactive", step.id>>,
     order       |-> order,
     instruction |-> IF Truthy(step.narration) THEN step.narration
                     ELSE step.description,
     hint        |-> <<"Look for the ", step.description>>,
     target      |-> [x             |-> step.highlight[1].x,
                      y             |-> step.highlight[1].y,
                      width         |-> 5,
                      height        |-> 5,
                      highlightType |-> IF step.highlight[1].type = "pulse"
                                        THEN "pulse" ELSE "glow",
                      tolerance     |-> 15],
     onCorrect   |-> [feedback |-> "Great job!", autoAdvance |-> TRUE],
     onIncorrect |-> [feedback    |-> "Not quite, try again.",
                      showHint    |-> TRUE,
                      maxAttempts |-> 1],
     scoring     |-> [points |-> 10, penaltyPerWrongClick |-> 2]]

InteractiveStepOf(step, order) ==
    [id          |-> <<"interactive", step.id>>,
     order       |-> order,
     instruction |-> IF Truthy(step.narration) THEN step.narration
                     ELSE step.description,
     hint        |-> <<"Look for the ", toLowerCase(step.description)>>,
     target      |-> [x             |-> step.highlight[1].x,
                      y             |-> step.highlight[1].y,
                      width         |-> 10,
                      height        |-> 8,
                      highlightType |-> IF step.highlight[1].type = "pulse"
                                        THEN "pulse" ELSE "glow",
                      tolerance     |-> 15],
     onCorrect   |-> [feedback |-> "Great job!", autoAdvance |-> TRUE],
     onIncorrect |-> [feedback    |-> "Not quite, try again.",
                      showHint    |-> TRUE,
                      maxAttempts |-> 3],
     scoring     |-> [points |-> 10, penaltyPerWrongClick |-> 2]]

RECURSIVE InteractiveFrom(_, _, _)
InteractiveFrom(steps, i, order) ==
    IF i > Len(steps) THEN <<>>
    ELSE LET step == steps[i]
         IN  IF step.action \notin {"click", "type"} THEN InteractiveFrom(steps, i + 1, order)
             ELSE IF ~Present(step.highlight) THEN InteractiveFrom(steps, i + 1, order)
             ELSE <<InteractiveStepOf(step, order)>>
                  \o InteractiveFrom(steps, i + 1, order + 1)

\* order taken from the step's index in the source list
RECURSIVE InteractiveByIndex(_, _)
InteractiveByIndex(steps, i) ==
    IF i > Len(steps) THEN <<>>
    ELSE LET step == steps[i]
         IN  IF step.action \notin {"click", "type"} THEN InteractiveByIndex(steps, i + 1)
             ELSE IF ~Present(step.highlight) THEN InteractiveByIndex(steps, i + 1)
             ELSE <<InteractiveStepOf(step, i - 1)>> \o InteractiveByIndex(steps, i + 1)

generateInteractiveStepsByIndex(steps, timestamps) == InteractiveByIndex(steps, 1)

generateInteractiveSteps(steps, timestamps) == InteractiveFrom(steps, 1, 0)


(***************************************************************************)
(* assembler.ts: assembleProject.                                          *)
(***************************************************************************)
VideoPath == "recording.webm"
AudioPath == "narration-src.mp3"
PlayerPath == "src/core/../player/player.html"
AltPlayerPath == "cwd/src/player/player.html"

\* the contents of an array field of a Project
Deref(field) == IF field.ref = NoRef THEN field.val ELSE arrays[field.ref]

Owned(seq) == [ref |-> NoRef, val |-> seq]
Alias(ref) == [ref |-> ref, val |-> <<>>]

\* input.timestamps[input.timestamps.length - 1].endTime, or 0
durationOf(timestamps) ==
    IF Len(timestamps) > 0 THEN timestamps[Len(timestamps)].endTime ELSE 0

\* the detected highlights and the derived ones, both
highlightsOfBoth(in) ==
    Owned((IF in.autoHighlights # NoRef THEN arrays[in.autoHighlights] ELSE <<>>)
            \o generateHighlights(in.steps, in.timestamps))

\* input.autoHighlights, or generateHighlights(...)
highlightsOf(in) ==
    IF in.autoHighlights # NoRef /\ Len(arrays[in.autoHighlights]) > 0
    THEN Alias(in.autoHighlights)
    ELSE Owned(generateHighlights(in.steps, in.timestamps))

\* question ids drawn from uuid() instead of the index
questionsOfUuid(in) ==
    LET qs == IF Present(in.questions) THEN in.questions[1] ELSE <<>>
    IN  [i \in 1..Len(qs) |->
            [id            |-> <<"question", nextUuid + i>>,
             at            |-> qs[i].at,
             pauseVideo    |-> qs[i].pauseVideo,
             question      |-> qs[i].question,
             type          |-> qs[i].type,
             options       |-> qs[i].options,
             correctAnswer |-> qs[i].correctAnswer]]

\* (input.questions || []).map((q, i) => ({...q, id: `question-${i}`}))
questionsOf(in) ==
    LET qs == IF Present(in.questions) THEN in.questions[1] ELSE <<>>
    IN  [i \in 1..Len(qs) |->
            [id            |-> <<"question", i - 1>>,
             at            |-> qs[i].at,
             pauseVideo    |-> qs[i].pauseVideo,
             question      |-> qs[i].question,
             type          |-> qs[i].type,
             options       |-> qs[i].options,
             correctAnswer |-> qs[i].correctAnswer]]

defaultLanguageOf(in) ==
    IF Present(in.defaultLanguage) /\ Truthy(in.defaultLanguage[1])
    THEN in.defaultLanguage[1] ELSE "en"

availableLanguagesOf(in) ==
    IF in.availableLanguages # NoRef THEN Alias(in.availableLanguages)
    ELSE Owned(<<"en">>)

\* the object literal of lines 91-115
ProjectOf(in, projectId, audioFileName, createdAt) ==
    [id          |-> projectId,
     title       |-> in.title,
     description |-> in.description,
     targetUrl   |-> in.targetUrl,
     duration    |-> durationOf(in.timestamps),
     createdAt   |-> createdAt,
     layers      |->
        [video      |-> [src |-> "video.webm", width |-> 1280, height |-> 720],
         audio      |-> IF Present(audioFileName)
                        THEN [src |-> audioFileName[1], volume |-> 1]
                        ELSE [src |-> "", volume |-> 0],
         subtitles  |-> generateSubtitles(in.steps, in.timestamps),
         highlights |-> highlightsOf(in),
         questions  |-> questionsOf(in),
         summary    |-> IF in.generateSummary
                        THEN <<generateSummary(in.steps, in.timestamps)>>
                        ELSE <<>>],
     interactiveSteps   |-> generateInteractiveSteps(in.steps, in.timestamps),
     defaultLanguage    |-> defaultLanguageOf(in),
     availableLanguages |-> availableLanguagesOf(in)]

\* JSON.stringify(project): the document as text, every array by value
Serialized(project) ==
    [project EXCEPT
        !.layers.highlights = Deref(@),
        !.layers.questions =
            [i \in 1..Len(@) |->
                [@[i] EXCEPT !.options = IF @ = NoRef THEN <<>> ELSE arrays[@]]],
        !.availableLanguages = Deref(@)]

assembleProject ==
    LET projectId == nextUuid
        audioFileName ==
            IF Present(input.audioPath) /\ input.audioPath[1] \in files
            THEN <<"narration.mp3">> ELSE <<>>
        project == ProjectOf(input, projectId, audioFileName, now)
        player == IF PlayerPath \in files \/ AltPlayerPath \in files
                  THEN {"index.html"} ELSE {}
        audio == IF Present(audioFileName) THEN {audioFileName[1]} ELSE {}
    IN  /\ nextUuid' = nextUuid + 1
        /\ IF input.videoPath \notin files
           THEN \* fs.copyFileSync throws: the promise rejects
                /\ outcome' = "error"
                /\ returned' = returned
                /\ disk' = disk \cup {[dir |-> projectId, names |-> {}, doc |-> <<>>]}
           ELSE /\ outcome' = "ok"
                /\ returned' = Append(returned, project)
                /\ disk' = disk \cup
                      {[dir   |-> projectId,
                        names |-> {"video.webm", "project.json"} \cup audio \cup player,
                        doc   |-> <<Serialized(project)>>]}
        /\ UNCHANGED <<input, arrays, files, now>>
        /\ UNCHANGED <<recVars, stuVars, engVars, srvVars>>


(***************************************************************************)
(* The callers' inputs.                                                    *)
(***************************************************************************)
AutoHighlight(i) ==
    [id     |-> <<"highlight-auto", i>>,
     start  |-> i,
     end    |-> i + 2,
     x      |-> 30,
     y      |-> 20,
     width  |-> 12,
     height |-> 3,
     type   |-> "rectangle",
     label  |-> "Email"]

AutoHighlightLists == {<<>>, <<AutoHighlight(0)>>, <<AutoHighlight(0), AutoHighlight(1)>>}
LanguageLists == {<<>>, <<"en">>, <<"he", "en", "ar">>}
LanguageCodes == {"en", "he"}

Question ==
    [at            |-> 1,
     pauseVideo    |-> TRUE,
     question      |-> "What do you enter?",
     type          |-> "multiple-choice",
     options       |-> "options",
     correctAnswer |-> 1]

QuestionOptions == <<[id |-> "a", text |-> "Phone"], [id |-> "b", text |-> "Email"]>>

\* what a caller may pass besides steps and timestamps; an absent list is <<>>
Options ==
    [autoHighlights     : {<<>>} \cup {<<l>> : l \in AutoHighlightLists},
     defaultLanguage    : {<<>>} \cup {<<c>> : c \in LanguageCodes},
     availableLanguages : {<<>>} \cup {<<l>> : l \in LanguageLists},
     questions          : BOOLEAN,
     generateSummary    : BOOLEAN,
     audioPath          : BOOLEAN]

\* the call of runDemo: questions and a summary, nothing else optional
DemoOptions ==
    [autoHighlights     |-> <<>>,
     defaultLanguage    |-> <<>>,
     availableLanguages |-> <<>>,
     questions          |-> TRUE,
     generateSummary    |-> TRUE,
     audioPath          |-> FALSE]

MkInput(steps, timestamps, o) ==
    [title              |-> "Compose an email",
     description        |-> "How to compose an email",
     targetUrl          |-> "https://mail.example.com",
     videoPath          |-> VideoPath,
     audioPath          |-> IF o.audioPath THEN <<AudioPath>> ELSE <<>>,
     steps              |-> steps,
     timestamps         |-> timestamps,
     questions          |-> IF o.questions THEN <<<<Question>>>> ELSE <<>>,
     generateSummary    |-> o.generateSummary,
     autoHighlights     |-> IF Present(o.autoHighlights) THEN "autoHighlights" ELSE NoRef,
     defaultLanguage    |-> o.defaultLanguage,
     availableLanguages |-> IF Present(o.availableLanguages)
                            THEN "availableLanguages" ELSE NoRef]

MkArrays(o) ==
    [r \in {"autoHighlights", "availableLanguages", "options"} |->
        CASE r = "autoHighlights" ->
                IF Present(o.autoHighlights) THEN o.autoHighlights[1] ELSE <<>>
          [] r = "availableLanguages" ->
                IF Present(o.availableLanguages) THEN o.availableLanguages[1] ELSE <<>>
          [] r = "options" -> IF o.questions THEN QuestionOptions ELSE <<>>]

AllFiles == {VideoPath, AudioPath, PlayerPath, AltPlayerPath}

NoCallYet ==
    /\ now = 0
    /\ nextUuid = 1
    /\ outcome = "none"
    /\ returned = <<>>
    /\ disk = {}

RecorderIdle ==
    /\ session = [startTime |-> 0, timestamps |-> <<>>]
    /\ script = <<>>
    /\ pc = "idle"
    /\ cursor = 0
    /\ stepStart = 0
    /\ awaiting = <<>>

StudioIdle ==
    /\ store = [id \in {} |-> <<>>]
    /\ reply = 0

NoCall == [op |-> "none", arg |-> <<>>, at |-> "Idle", again |-> FALSE]
NothingActive == [subtitles |-> {}, highlights |-> {}, questions |-> {}]
DefaultViewport == [width |-> 1500, height |-> 750]

NoRequest == [op |-> "none", by |-> <<>>, role |-> <<>>, on |-> 0, status |-> 0,
              roleWritten |-> FALSE]
NoProbe == [op |-> "none", element |-> <<>>, viewport |-> <<>>, result |-> <<>>]

NoDatabase == [tutorials |-> {}, tutorial_versions |-> {}, users |-> {}]

ServerIdle ==
    /\ recordingSessions = [s \in {} |-> <<>>]
    /\ tasks = [s \in {} |-> <<>>]
    /\ db = NoDatabase
    /\ tokens = {}
    /\ lastReq = NoRequest
    /\ probe = NoProbe

PlayerIdle ==
    /\ loaded = <<>>
    /\ mode = "show-me"
    /\ phase = "Idle"
    /\ isession = <<>>
    /\ wrong = 0
    /\ hintShown = FALSE
    /\ viewport = DefaultViewport
    /\ active = NothingActive
    /\ feedback = ""
    /\ lastCall = NoCall

(***************************************************************************)
(* SpecCompile: one call of assembleProject, on inputs that vary the step  *)
(* list, the timestamp list and the options, one at a time.                *)
(***************************************************************************)
InitCompile ==
    /\ \/ \E s \in WideSteps : \E t \in {<<>>, UnitTimestamps(s)} :
            /\ input = MkInput(s, t, DemoOptions)
            /\ arrays = MkArrays(DemoOptions)
            /\ files = AllFiles
       \/ \E s \in NarrowSteps : \E t \in WideTimestamps(s) :
            /\ input = MkInput(s, t, DemoOptions)
            /\ arrays = MkArrays(DemoOptions)
            /\ files = AllFiles
       \/ \E s \in NarrowSteps : \E o \in Options : \E f \in SUBSET AllFiles :
            /\ input = MkInput(s, UnitTimestamps(s), o)
            /\ arrays = MkArrays(o)
            /\ files = f
    /\ NoCallYet
    /\ RecorderIdle
    /\ StudioIdle
    /\ PlayerIdle
    /\ ServerIdle

FirstCall == returned = <<>> /\ outcome = "none" /\ assembleProject

NextCompile == FirstCall

SpecCompile == InitCompile /\ [][NextCompile]_vars

\* the Project the last call returned
Compiled == outcome = "ok"
project == returned[Len(returned)]


(***************************************************************************)
(* The environment of a call, and what the holders of references do.       *)
(***************************************************************************)
Tick ==
    /\ now < MaxClock
    /\ now' = now + 1
    /\ UNCHANGED <<asmVars, recVars, stuVars, engVars, srvVars>>

\* the recording or the narration file is deleted, or written again
ToggleFile(f) ==
    /\ files' = IF f \in files THEN files \ {f} ELSE files \cup {f}
    /\ UNCHANGED <<input, arrays, nextUuid, outcome, returned, disk, now>>
    /\ UNCHANGED <<recVars, stuVars, engVars, srvVars>>

InputRefs ==
    ({input.autoHighlights, input.availableLanguages} \ {NoRef})
        \cup (IF Present(input.questions)
              THEN {input.questions[1][i].options : i \in 1..Len(input.questions[1])}
              ELSE {})

ProjectRefs(p) ==
    ({p.layers.highlights.ref, p.availableLanguages.ref}
        \cup {p.layers.questions[i].options : i \in 1..Len(p.layers.questions)})
    \ {NoRef}

\* what a reader of the input sees: every array by value
InputView ==
    [input EXCEPT
        !.autoHighlights = IF @ = NoRef THEN <<>> ELSE <<arrays[@]>>,
        !.availableLanguages = IF @ = NoRef THEN <<>> ELSE <<arrays[@]>>,
        !.questions = IF Present(@)
                      THEN <<[i \in 1..Len(@[1]) |->
                                [@[1][i] EXCEPT !.options = arrays[@]]]>>
                      ELSE <<>>]

\* what a reader of the k-th returned Project sees
ProjectView(k) == Serialized(returned[k])

\* the caller pushes an entry onto an array it passed in
PushInput(r) ==
    /\ r \in InputRefs
    /\ Len(arrays[r]) < MaxLen
    /\ arrays' = [arrays EXCEPT ![r] = Append(@, "pushed")]
    /\ UNCHANGED <<input, files, nextUuid, outcome, returned, disk, now>>
    /\ UNCHANGED <<recVars, stuVars, engVars, srvVars>>

\* the holder of the k-th Project pushes an entry onto its highlights layer
PushProject(k) ==
    /\ k \in 1..Len(returned)
    /\ LET field == returned[k].layers.highlights
       IN  /\ Len(Deref(field)) < MaxLen
           /\ IF field.ref = NoRef
              THEN /\ returned' =
                        [returned EXCEPT ![k].layers.highlights.val = Append(@, "pushed")]
                   /\ arrays' = arrays
              ELSE /\ arrays' = [arrays EXCEPT ![field.ref] = Append(@, "pushed")]
                   /\ returned' = returned
    /\ UNCHANGED <<input, files, nextUuid, outcome, disk, now>>
    /\ UNCHANGED <<recVars, stuVars, engVars, srvVars>>

\* the call of main(): detected highlights, Hebrew first
GovOptions ==
    [autoHighlights     |-> <<<<AutoHighlight(0), AutoHighlight(1)>>>>,
     defaultLanguage    |-> <<"he">>,
     availableLanguages |-> <<<<"he", "en", "ar">>>>,
     questions          |-> TRUE,
     generateSummary    |-> TRUE,
     audioPath          |-> FALSE]

\* one narrated step list of each length
NarratedSteps == {s \in NarrowSteps : \A i \in 1..Len(s) : Truthy(s[i].narration)}

InitCallers ==
    /\ \E s \in NarratedSteps : \E o \in {DemoOptions, GovOptions} : \E a \in BOOLEAN :
            /\ input = MkInput(s, UnitTimestamps(s), [o EXCEPT !.audioPath = a])
            /\ arrays = MkArrays(o)
    /\ files = AllFiles
    /\ NoCallYet
    /\ RecorderIdle
    /\ StudioIdle
    /\ PlayerIdle
    /\ ServerIdle

Call == nextUuid <= MaxCalls /\ assembleProject

(***************************************************************************)
(* SpecCalls: several calls with the same input, while the clock runs and  *)
(* files come and go.                                                      *)
(***************************************************************************)
NextCalls ==
    \/ Call
    \/ Tick
    \/ \E f \in {VideoPath, AudioPath} : ToggleFile(f)

SpecCalls == InitCallers /\ [][NextCalls]_vars

(***************************************************************************)
(* SpecShare: several calls, while the caller and the holders of the       *)
(* returned Projects change the arrays they hold.                          *)
(***************************************************************************)
NextShare ==
    \/ Call
    \/ \E r \in InputRefs : PushInput(r)
    \/ \E k \in 1..Len(returned) : PushProject(k)

SpecShare == InitCallers /\ [][NextShare]_vars

(***************************************************************************)
(* server.ts: the Studio project store.                                    *)
(***************************************************************************)
\* { ...base, ...partial }: a key the request carries replaces the base's
Spread(base, partial) ==
    [key \in DOMAIN base |->
        IF Present(partial[key]) THEN partial[key][1] ELSE base[key]]

DefaultSettings ==
    [defaultLanguage    |-> "he",
     availableLanguages |-> <<"he", "en", "ar">>,
     viewport           |-> [width |-> 1280, height |-> 720]]

NoSettings ==
    [defaultLanguage |-> <<>>, availableLanguages |-> <<>>, viewport |-> <<>>]

\* the Partial<ProjectSettings> a request may carry
PartialSettings ==
    [defaultLanguage    : {<<>>} \cup {<<c>> : c \in LanguageCodes},
     availableLanguages : {<<>>} \cup {<<l>> : l \in LanguageLists},
     viewport           : {<<>>}]

\* the bodies of POST /api/projects and PUT /api/projects/:id
ProjectBodies ==
    [name        : {"", "Gmail"},
     description : {<<>>, <<"Mail tutorials">>},
     targetUrl   : {"", "https://mail.example.com"},
     settings    : {<<>>} \cup {<<p>> : p \in PartialSettings}]

\* app.post('/api/projects')
PostProject(body) ==
    IF ~Truthy(body.name) \/ ~Truthy(body.targetUrl)
    THEN /\ reply' = 400
         /\ UNCHANGED <<store, nextUuid>>
    ELSE LET projectId == nextUuid
             doc == [id          |-> projectId,
                     name        |-> body.name,
                     description |-> body.description,
                     targetUrl   |-> body.targetUrl,
                     createdAt   |-> now,
                     updatedAt   |-> now,
                     tutorials   |-> <<>>,
                     settings    |-> Spread(DefaultSettings,
                                            IF Present(body.settings)
                                            THEN body.settings[1] ELSE NoSettings)]
         IN  /\ nextUuid' = nextUuid + 1
             /\ store' = [id \in DOMAIN store \cup {projectId} |->
                            IF id = projectId THEN doc ELSE store[id]]
             /\ reply' = 200

\* app.put('/api/projects/:id')
PutProject(id, updates) ==
    IF id \notin DOMAIN store
    THEN /\ reply' = 404
         /\ UNCHANGED <<store, nextUuid>>
    ELSE LET old == store[id]
             doc == [old EXCEPT
                        !.name = IF Truthy(updates.name) THEN updates.name ELSE @,
                        !.description = IF Present(updates.description)
                                        THEN updates.description ELSE @,
                        !.targetUrl = IF Truthy(updates.targetUrl)
                                      THEN updates.targetUrl ELSE @,
                        !.settings = IF Present(updates.settings)
                                     THEN Spread(@, updates.settings[1]) ELSE @,
                        !.updatedAt = now]
         IN  /\ store' = [store EXCEPT ![id] = doc]
             /\ reply' = 200
             /\ UNCHANGED nextUuid

\* app.delete('/api/projects/:id')
DeleteProject(id) ==
    IF id \notin DOMAIN store
    THEN /\ reply' = 404
         /\ UNCHANGED <<store, nextUuid>>
    ELSE /\ store' = [i \in DOMAIN store \ {id} |-> store[i]]
         /\ reply' = 200
         /\ UNCHANGED nextUuid

(***************************************************************************)
(* SpecStudio: requests to the project API.                                *)
(***************************************************************************)
InitStudio ==
    /\ input = MkInput(<<>>, <<>>, DemoOptions)
    /\ arrays = MkArrays(DemoOptions)
    /\ files = AllFiles
    /\ NoCallYet
    /\ RecorderIdle
    /\ StudioIdle
    /\ PlayerIdle
    /\ ServerIdle

StudioFrame ==
    UNCHANGED <<input, arrays, files, outcome, returned, disk, now, recVars, engVars, srvVars>>

NextStudio ==
    \/ Tick
    \/ \E body \in ProjectBodies :
          nextUuid <= MaxProjects /\ PostProject(body) /\ StudioFrame
    \/ \E id \in 1..MaxProjects : \E updates \in ProjectBodies :
          PutProject(id, updates) /\ StudioFrame
    \/ \E id \in 1..MaxProjects : DeleteProject(id) /\ StudioFrame

SpecStudio == InitStudio /\ [][NextStudio]_vars

(***************************************************************************)
(* browser.ts: createSession, executeStep, executeSteps.                   *)
(*                                                                         *)
(* Date.now() is read from `now`, which never goes back.  The browser is   *)
(* outside the model: an awaited page operation takes any time and either  *)
(* returns or throws.                                                      *)
(***************************************************************************)
\* the steps of a script, as far as executeStep reads them
RecorderShapes ==
    {[action |-> "navigate",   selector |-> FALSE, value |-> TRUE,
      waitForSelector |-> FALSE, waitAfter |-> 0],
     [action |-> "click",      selector |-> TRUE,  value |-> FALSE,
      waitForSelector |-> FALSE, waitAfter |-> 1],
     [action |-> "wait",       selector |-> FALSE, value |-> FALSE,
      waitForSelector |-> FALSE, waitAfter |-> 0],
     [action |-> "screenshot", selector |-> FALSE, value |-> FALSE,
      waitForSelector |-> FALSE, waitAfter |-> 0]}

Scripts ==
    {[i \in 1..Len(s) |->
        [id              |-> StepIdOf(i),
         action          |-> s[i].action,
         selector        |-> s[i].selector,
         value           |-> s[i].value,
         waitForSelector |-> s[i].waitForSelector,
         waitAfter       |-> s[i].waitAfter]] : s \in SeqsUpTo(RecorderShapes, MaxSteps)}

\* the page operations executeStep awaits for a step, in order
PageCalls(step) ==
    (CASE step.action = "navigate" ->
            IF step.value THEN <<"goto">> ELSE <<>>
       [] step.action = "click" ->
            IF step.selector THEN <<"waitForSelector", "click">> ELSE <<>>
       [] step.action = "type" ->
            IF step.selector /\ step.value THEN <<"waitForSelector", "fill">> ELSE <<>>
       [] step.action = "hover" ->
            IF step.selector THEN <<"waitForSelector", "hover">> ELSE <<>>
       [] step.action = "scroll" ->
            IF step.selector THEN <<"waitForSelector", "scrollIntoViewIfNeeded">>
            ELSE <<"evaluate">>
       [] step.action = "wait" ->
            IF step.waitForSelector THEN <<"waitForSelector">> ELSE <<"waitForTimeout">>
       [] OTHER -> <<>>)
    \o (IF step.waitAfter # 0 THEN <<"waitForTimeout">> ELSE <<>>)

\* Date.now() - session.startTime
Elapsed == now - session.startTime

\* stepStart and stepEnd exchanged
TimestampSwapped(step, start, end) ==
    [stepId |-> step.id, startTime |-> end, endTime |-> start]

\* the StepTimestamp executeStep pushes
TimestampOf(step, start, end) ==
    [stepId |-> step.id, startTime |-> start, endTime |-> end]

RecFrame == UNCHANGED <<asmVars, stuVars, engVars, srvVars, now>>

createSession ==
    /\ pc = "idle"
    /\ session' = [startTime |-> now, timestamps |-> <<>>]
    /\ pc' = "ready"
    /\ UNCHANGED <<script, cursor, stepStart, awaiting>>
    /\ RecFrame

\* executeSteps(session, steps) is called
executeSteps(steps) ==
    /\ pc = "ready"
    /\ script' = steps
    /\ cursor' = 1
    /\ pc' = IF Len(steps) = 0 THEN "done" ELSE "between"
    /\ UNCHANGED <<session, stepStart, awaiting>>
    /\ RecFrame

\* executeStep: up to its first await
StepBegins ==
    /\ pc = "between"
    /\ stepStart' = Elapsed
    /\ awaiting' = PageCalls(script[cursor])
    /\ pc' = "inside"
    /\ UNCHANGED <<session, script, cursor>>
    /\ RecFrame

\* an awaited page operation returns
PageReturns ==
    /\ pc = "inside"
    /\ awaiting # <<>>
    /\ awaiting' = Tail(awaiting)
    /\ UNCHANGED <<session, script, cursor, stepStart, pc>>
    /\ RecFrame

\* an awaited page operation throws: executeStep and executeSteps reject
PageThrows ==
    /\ pc = "inside"
    /\ awaiting # <<>>
    /\ awaiting' = <<>>
    /\ pc' = "failed"
    /\ UNCHANGED <<session, script, cursor, stepStart>>
    /\ RecFrame

\* executeStep: from its last await to its end, and the loop's next turn
StepEnds ==
    /\ pc = "inside"
    /\ awaiting = <<>>
    /\ LET stepEnd == Elapsed
       IN  session' = [session EXCEPT !.timestamps =
                          Append(@, TimestampOf(script[cursor], stepStart, stepEnd))]
    /\ cursor' = cursor + 1
    /\ pc' = IF cursor = Len(script) THEN "done" ELSE "between"
    /\ UNCHANGED <<script, stepStart, awaiting>>
    /\ RecFrame

(***************************************************************************)
(* SpecRecord: one recording session.                                      *)
(***************************************************************************)
InitRecord ==
    /\ input = MkInput(<<>>, <<>>, DemoOptions)
    /\ arrays = MkArrays(DemoOptions)
    /\ files = AllFiles
    /\ NoCallYet
    /\ RecorderIdle
    /\ StudioIdle
    /\ PlayerIdle
    /\ ServerIdle

NextRecord ==
    \/ Tick
    \/ createSession
    \/ \E steps \in Scripts : executeSteps(steps)
    \/ StepBegins
    \/ PageReturns
    \/ PageThrows
    \/ StepEnds

SpecRecord == InitRecord /\ [][NextRecord]_vars

(***************************************************************************)
(* The interactive playback engine: load, setMode, onPointerEvent, onTick  *)
(* and getSession over a Project document.  The repository's sources hold  *)
(* the engine's data types (types/project.ts) and the compiler that writes *)
(* its input; the engine's behaviour is taken from the specification.      *)
(***************************************************************************)
LearningMode == {"show-me", "guide-me", "test-me"}

Viewports ==
    {[width |-> 1500, height |-> 750], [width |-> 500, height |-> 250]}

\* percentage coordinates of pointer events: inside the target, far from it,
\* and left of it by 3 percent
Pointers == {<<55, 58>>, <<70, 70>>, <<47, 60>>}

Min(a, b) == IF a < b THEN a ELSE b
Max(a, b) == IF a > b THEN a ELSE b

\* coordinates out of range are clamped to the viewport when a Project loads
Clamp(target) ==
    LET x == Max(0, Min(target.x, 100))
        y == Max(0, Min(target.y, 100))
    IN  [target EXCEPT !.x = x,
                       !.y = y,
                       !.width = Max(0, Min(target.width, 100 - x)),
                       !.height = Max(0, Min(target.height, 100 - y))]

Clamped(doc) ==
    [doc EXCEPT !.interactiveSteps =
        [k \in 1..Len(@) |-> [@[k] EXCEPT !.target = Clamp(@)]]]

\* a document as an author changed it: fewer points, one attempt before the
\* hint, a target that runs out of the viewport
Authored(doc) ==
    [doc EXCEPT !.interactiveSteps =
        [k \in 1..Len(@) |->
            [@[k] EXCEPT !.scoring.points = 3,
                         !.onIncorrect.maxAttempts = 1,
                         !.onIncorrect.showHint = FALSE,
                         !.target.height = 50]]]

\* the tolerance converted once, for a viewport 1000 pixels wide and high
HitTestFixed(target, px, py, vp) ==
    /\ (target.x - px) * 1000 <= target.tolerance * 100
    /\ (px - (target.x + target.width)) * 1000 <= target.tolerance * 100
    /\ (target.y - py) * 1000 <= target.tolerance * 100
    /\ (py - (target.y + target.height)) * 1000 <= target.tolerance * 100

\* the tolerance is in pixels: tolerance * 100 / width percent of the width,
\* tolerance * 100 / height percent of the height; a point t percent left of
\* the rectangle is within the tolerance iff t * width <= tolerance * 100
HitTest(target, px, py, vp) ==
    /\ (target.x - px) * vp.width <= target.tolerance * 100
    /\ (px - (target.x + target.width)) * vp.width <= target.tolerance * 100
    /\ (target.y - py) * vp.height <= target.tolerance * 100
    /\ (py - (target.y + target.height)) * vp.height <= target.tolerance * 100

RECURSIVE SumPoints(_, _)
SumPoints(isteps, k) ==
    IF k > Len(isteps) THEN 0
    ELSE isteps[k].scoring.points + SumPoints(isteps, k + 1)

\* the points of the first InteractiveStep only
MaxScoreOfFirstStep(doc, m) ==
    IF m = "test-me" /\ Len(doc.interactiveSteps) > 0
    THEN doc.interactiveSteps[1].scoring.points ELSE 0

\* every InteractiveStep contributes its points, in test-me
MaxScoreOf(doc, m) ==
    IF m = "test-me" THEN SumPoints(doc.interactiveSteps, 1) ELSE 0

\* the penalties without a floor
ContributionUnfloored(step, m, k) ==
    IF m = "test-me"
    THEN step.scoring.points - k * step.scoring.penaltyPerWrongClick
    ELSE 0

\* what a step solved after k wrong attempts adds to the score
Contribution(step, m, k) ==
    IF m = "test-me"
    THEN Max(0, step.scoring.points - k * step.scoring.penaltyPerWrongClick)
    ELSE 0

\* a Session that is never complete at its creation
NewSessionOpen(doc, m) ==
    [mode             |-> m,
     projectId        |-> doc.id,
     currentStepIndex |-> 0,
     startTime        |-> now,
     score            |-> 0,
     maxScore         |-> MaxScoreOf(doc, m),
     attempts         |-> <<>>,
     completedSteps   |-> <<>>,
     isComplete       |-> FALSE]

NewSession(doc, m) ==
    [mode             |-> m,
     projectId        |-> doc.id,
     currentStepIndex |-> 0,
     startTime        |-> now,
     score            |-> 0,
     maxScore         |-> MaxScoreOf(doc, m),
     attempts         |-> <<>>,
     completedSteps   |-> <<>>,
     isComplete       |-> Len(doc.interactiveSteps) = 0]

\* the layer entries whose window [start, end) holds t; a question is due
\* from its time on
ActiveAt(doc, t) ==
    LET subs == doc.layers.subtitles
        highs == doc.layers.highlights
        quests == doc.layers.questions
    IN  [subtitles  |-> {subs[i].id : i \in
                            {j \in 1..Len(subs) : subs[j].start <= t /\ t < subs[j].end}},
         highlights |-> {highs[i].id : i \in
                            {j \in 1..Len(highs) : highs[j].start <= t /\ t < highs[j].end}},
         questions  |-> {quests[i].id : i \in
                            {j \in 1..Len(quests) : quests[j].at <= t}}]

Called(op, arg) ==
    [op    |-> op,
     arg   |-> arg,
     at    |-> phase,
     again |-> lastCall.op = op /\ lastCall.arg = arg]

PlayFrame == UNCHANGED <<asmVars, recVars, stuVars, srvVars, now>>

\* playback starts: show-me plays the video, guide-me and test-me create a
\* Session and wait at the first InteractiveStep, or are complete without one
Begin(doc, m) ==
    /\ wrong' = 0
    /\ hintShown' = FALSE
    /\ feedback' = ""
    /\ active' = NothingActive
    /\ IF m = "show-me"
       THEN /\ phase' = "Playing"
            /\ isession' = <<>>
       ELSE /\ phase' = IF Len(doc.interactiveSteps) = 0 THEN "Complete"
                        ELSE "WaitingForInput"
            /\ isession' = <<NewSession(doc, m)>>

load(doc) ==
    /\ loaded' = <<Clamped(doc)>>
    /\ Begin(Clamped(doc), mode)
    /\ lastCall' = Called("load", <<>>)
    /\ UNCHANGED <<mode, viewport>>
    /\ PlayFrame

setMode(m) ==
    /\ mode' = m
    /\ IF Present(loaded) THEN Begin(loaded[1], m)
       ELSE UNCHANGED <<phase, isession, wrong, hintShown, feedback, active>>
    /\ lastCall' = Called("setMode", <<>>)
    /\ UNCHANGED <<loaded, viewport>>
    /\ PlayFrame

resize(vp) ==
    /\ viewport' = vp
    /\ lastCall' = Called("resize", <<>>)
    /\ UNCHANGED <<loaded, mode, phase, isession, wrong, hintShown, active, feedback>>
    /\ PlayFrame


CurrentStep == loaded[1].interactiveSteps[isession[1].currentStepIndex + 1]

\* every pointer event is logged, whatever the phase
onPointerEventLogged(px, py) ==
    /\ lastCall' = Called("onPointerEvent", <<px, py>>)
    /\ IF phase = "WaitingForInput"
       THEN LET step == CurrentStep
                hit == HitTest(step.target, px, py, viewport)
                attempt == [stepId        |-> step.id,
                            timestamp     |-> now,
                            clickX        |-> px,
                            clickY        |-> py,
                            isCorrect     |-> hit,
                            attemptNumber |-> wrong + 1]
            IN  /\ Len(isession[1].attempts) < MaxEvents
                /\ IF hit
                   THEN /\ isession' =
                             <<[isession[1] EXCEPT
                                  !.attempts = Append(@, attempt),
                                  !.completedSteps = Append(@, step.id),
                                  !.score = @ + Contribution(step, mode, wrong)]>>
                        /\ phase' = "Correct"
                        /\ feedback' = step.onCorrect.feedback
                        /\ UNCHANGED <<wrong, hintShown>>
                   ELSE /\ isession' =
                             <<[isession[1] EXCEPT !.attempts = Append(@, attempt)]>>
                        /\ wrong' = wrong + 1
                        /\ hintShown' =
                             \/ wrong + 1 >= step.onIncorrect.maxAttempts
                             \/ mode = "guide-me" /\ step.onIncorrect.showHint
                        /\ feedback' = step.onIncorrect.feedback
                        /\ UNCHANGED phase
       ELSE /\ isession' =
                 IF Present(isession) /\ Len(isession[1].attempts) < MaxEvents
                 THEN <<[isession[1] EXCEPT !.attempts =
                            Append(@, [stepId        |-> "",
                                       timestamp     |-> now,
                                       clickX        |-> px,
                                       clickY        |-> py,
                                       isCorrect     |-> FALSE,
                                       attemptNumber |-> wrong + 1])]>>
                 ELSE isession
            /\ UNCHANGED <<phase, wrong, hintShown, feedback>>
    /\ UNCHANGED <<loaded, mode, viewport, active>>
    /\ PlayFrame

\* a step takes no attempt after maxAttempts wrong ones
onPointerEventLocked(px, py) ==
    /\ lastCall' = Called("onPointerEvent", <<px, py>>)
    /\ IF /\ phase = "WaitingForInput"
          /\ wrong < CurrentStep.onIncorrect.maxAttempts
       THEN LET step == CurrentStep
                hit == HitTest(step.target, px, py, viewport)
                attempt == [stepId        |-> step.id,
                            timestamp     |-> now,
                            clickX        |-> px,
                            clickY        |-> py,
                            isCorrect     |-> hit,
                            attemptNumber |-> wrong + 1]
            IN  /\ Len(isession[1].attempts) < MaxEvents
                /\ IF hit
                   THEN /\ isession' =
                             <<[isession[1] EXCEPT
                                  !.attempts = Append(@, attempt),
                                  !.completedSteps = Append(@, step.id),
                                  !.score = @ + Contribution(step, mode, wrong)]>>
                        /\ phase' = "Correct"
                        /\ feedback' = step.onCorrect.feedback
                        /\ UNCHANGED <<wrong, hintShown>>
                   ELSE /\ isession' =
                             <<[isession[1] EXCEPT !.attempts = Append(@, attempt)]>>
                        /\ wrong' = wrong + 1
                        /\ hintShown' =
                             \/ wrong + 1 >= step.onIncorrect.maxAttempts
                             \/ mode = "guide-me" /\ step.onIncorrect.showHint
                        /\ feedback' = step.onIncorrect.feedback
                        /\ UNCHANGED phase
       ELSE UNCHANGED <<phase, isession, wrong, hintShown, feedback>>
    /\ UNCHANGED <<loaded, mode, viewport, active>>
    /\ PlayFrame

\* a pointer event is evaluated only while the engine waits for input at an
\* InteractiveStep; anywhere else it is ignored
onPointerEvent(px, py) ==
    /\ lastCall' = Called("onPointerEvent", <<px, py>>)
    /\ IF phase = "WaitingForInput"
       THEN LET step == CurrentStep
                hit == HitTest(step.target, px, py, viewport)
                attempt == [stepId        |-> step.id,
                            timestamp     |-> now,
                            clickX        |-> px,
                            clickY        |-> py,
                            isCorrect     |-> hit,
                            attemptNumber |-> wrong + 1]
            IN  /\ Len(isession[1].attempts) < MaxEvents
                /\ IF hit
                   THEN /\ isession' =
                             <<[isession[1] EXCEPT
                                  !.attempts = Append(@, attempt),
                                  !.completedSteps = Append(@, step.id),
                                  !.score = @ + Contribution(step, mode, wrong)]>>
                        /\ phase' = "Correct"
                        /\ feedback' = step.onCorrect.feedback
                        /\ UNCHANGED <<wrong, hintShown>>
                   ELSE /\ isession' =
                             <<[isession[1] EXCEPT !.attempts = Append(@, attempt)]>>
                        /\ wrong' = wrong + 1
                        /\ hintShown' =
                             \/ wrong + 1 >= step.onIncorrect.maxAttempts
                             \/ mode = "guide-me" /\ step.onIncorrect.showHint
                        /\ feedback' = step.onIncorrect.feedback
                        /\ UNCHANGED phase
       ELSE UNCHANGED <<phase, isession, wrong, hintShown, feedback>>
    /\ UNCHANGED <<loaded, mode, viewport, active>>
    /\ PlayFrame

\* the step after a solved one is entered, or the session is complete
Advance ==
    LET next == isession[1].currentStepIndex + 1
        last == next >= Len(loaded[1].interactiveSteps)
    IN  /\ isession' = <<[isession[1] EXCEPT !.currentStepIndex = next,
                                              !.isComplete = last]>>
        /\ phase' = IF last THEN "Complete" ELSE "WaitingForInput"
        /\ wrong' = 0
        /\ hintShown' = FALSE
        /\ feedback' = ""

\* the advance fires on every tick that follows a solved step
onTickAdvancing(t) ==
    /\ Present(loaded)
    /\ lastCall' = Called("onTick", <<t>>)
    /\ active' = ActiveAt(loaded[1], t)
    /\ IF Present(isession) /\ ~isession[1].isComplete
          /\ Len(isession[1].completedSteps) > 0
       THEN Advance
       ELSE UNCHANGED <<phase, isession, wrong, hintShown, feedback>>
    /\ UNCHANGED <<loaded, mode, viewport>>
    /\ PlayFrame

\* the layers are scanned for the windows that hold t; a solved step with
\* autoAdvance is left; show-me is complete when the video reaches its end
onTick(t) ==
    /\ Present(loaded)
    /\ lastCall' = Called("onTick", <<t>>)
    /\ active' = ActiveAt(loaded[1], t)
    /\ IF phase = "Correct" /\ CurrentStep.onCorrect.autoAdvance
       THEN Advance
       ELSE IF phase = "Playing" /\ t >= loaded[1].duration
       THEN /\ phase' = "Complete"
            /\ UNCHANGED <<isession, wrong, hintShown, feedback>>
       ELSE UNCHANGED <<phase, isession, wrong, hintShown, feedback>>
    /\ UNCHANGED <<loaded, mode, viewport>>
    /\ PlayFrame

getSession == isession

(***************************************************************************)
(* SpecPlay: a tutorial of clicks is compiled, the document is loaded as   *)
(* written or as an author changed it, and a viewer plays it.              *)
(***************************************************************************)
\* clicks with a hint and a narration
NarratedClicks ==
    {s \in NarrowSteps : \A i \in 1..Len(s) : Truthy(s[i].narration)}

InitPlay ==
    /\ \E s \in NarratedClicks :
          /\ input = MkInput(s, UnitTimestamps(s), DemoOptions)
          /\ arrays = MkArrays(DemoOptions)
    /\ files = AllFiles
    /\ NoCallYet
    /\ RecorderIdle
    /\ StudioIdle
    /\ PlayerIdle
    /\ ServerIdle

Documents == {d.doc[1] : d \in {e \in disk : Present(e.doc)}}

NextPlay ==
    \/ FirstCall
    \/ \E doc \in Documents : load(doc)
    \/ \E doc \in Documents : load(Authored(doc))
    \/ \E m \in LearningMode : setMode(m)
    \/ \E vp \in Viewports : resize(vp)
    \/ \E p \in Pointers : onPointerEvent(p[1], p[2])
    \/ \E t \in 0..MaxTick : onTick(t)

SpecPlay == InitPlay /\ [][NextPlay]_vars


(***************************************************************************)
(* Claims about one call of assembleProject.                               *)
(***************************************************************************)
\* the steps that qualify as interactive: a click or a type, with a hint
Clickable(steps) ==
    {i \in 1..Len(steps) :
        steps[i].action \in {"click", "type"} /\ Present(steps[i].highlight)}

\* C1: an InteractiveStep is produced for a step iff the step is a click or a
\* type and carries a highlight hint; the InteractiveSteps are in source-step
\* order and their order fields are 0, 1, ..., n-1.
C1_InteractiveSteps ==
    Compiled =>
        LET steps == input.steps
            isteps == project.interactiveSteps
            From(k, i) == isteps[k].id = <<"interactive", steps[i].id>>
            SourceOf(k) == CHOOSE i \in 1..Len(steps) : From(k, i)
        IN  /\ \A i \in 1..Len(steps) :
                 (i \in Clickable(steps)) <=> (\E k \in 1..Len(isteps) : From(k, i))
            /\ \A k \in 1..Len(isteps) : \E i \in Clickable(steps) : From(k, i)
            /\ Len(isteps) = Cardinality(Clickable(steps))
            /\ \A k \in 1..Len(isteps) : isteps[k].order = k - 1
            /\ \A k, l \in 1..Len(isteps) : k < l => SourceOf(k) < SourceOf(l)

\* a step that is no InteractiveStep comes before one that is, or two
\* InteractiveSteps came out with orders 0 and 1
C1_Witness ==
    /\ Compiled
    /\ Len(input.steps) = 2
    /\ \/ /\ Clickable(input.steps) = {2}
          /\ Len(project.interactiveSteps) = 1
       \/ /\ Len(project.interactiveSteps) = 2
          /\ project.interactiveSteps[2].order = 1

\* C2: a step with non-empty narration and a timestamp of the same stepId has
\* exactly one subtitle, with that timestamp's start and end and the step's
\* narration; a step with no matching timestamp has no subtitle, and the call
\* does not fail over it.
C2_Subtitles ==
    /\ (outcome = "error") => (input.videoPath \notin files)
    /\ Compiled =>
        LET steps == input.steps
            ts == input.timestamps
            subs == project.layers.subtitles
            For(i) == {k \in 1..Len(subs) : subs[k].id = <<"subtitle", steps[i].id>>}
            Matching(i) == {j \in 1..Len(ts) : ts[j].stepId = steps[i].id}
        IN  \A i \in 1..Len(steps) :
              /\ (Truthy(steps[i].narration) /\ Matching(i) # {}) =>
                    /\ Cardinality(For(i)) = 1
                    /\ \E j \in Matching(i) : \A k \in For(i) :
                          /\ subs[k].start = ts[j].startTime
                          /\ subs[k].end = ts[j].endTime
                          /\ subs[k].text = steps[i].narration
              /\ (Matching(i) = {}) => (For(i) = {})

\* one narrated step has a timestamp and a subtitle, another narrated step has
\* neither, and the list holds a timestamp in a position that is not the step's
C2_Witness ==
    /\ Compiled
    /\ Len(input.steps) = 2
    /\ Truthy(input.steps[1].narration)
    /\ Truthy(input.steps[2].narration)
    /\ Len(input.timestamps) = 2
    /\ input.timestamps[1].stepId = UnknownStepId
    /\ input.timestamps[2].stepId = input.steps[1].id
    /\ input.timestamps[2].startTime < input.timestamps[2].endTime
    /\ Len(project.layers.subtitles) = 1

RECURSIVE MaxOf(_)
MaxOf(S) ==
    IF S = {} THEN 0
    ELSE LET x == CHOOSE y \in S : TRUE
             m == MaxOf(S \ {x})
         IN  IF x > m THEN x ELSE m

\* C3: the duration of the Project is the maximum endTime over all timestamps
\* of the input, and 0 when there are none.
C3_DurationIsMax ==
    Compiled =>
        project.duration =
            MaxOf({input.timestamps[j].endTime : j \in 1..Len(input.timestamps)})

\* the hinted steps that have a timestamp
Hinted(steps, ts) ==
    {i \in 1..Len(steps) :
        /\ Present(steps[i].highlight)
        /\ \E j \in 1..Len(ts) : ts[j].stepId = steps[i].id}

\* C4: a present, non-empty autoHighlights list is the highlights layer, entry
\* for entry, whatever hints the steps carry; otherwise the layer holds the
\* highlights derived from the steps' hints, and nothing else.
C4_AutoHighlightsVerbatim ==
    Compiled =>
        LET layer == Deref(project.layers.highlights)
            steps == input.steps
        IN  IF input.autoHighlights # NoRef /\ arrays[input.autoHighlights] # <<>>
            THEN layer = arrays[input.autoHighlights]
            ELSE /\ Len(layer) = Cardinality(Hinted(steps, input.timestamps))
                 /\ \A k \in 1..Len(layer) :
                      \E i \in Hinted(steps, input.timestamps) :
                         /\ layer[k].id = <<"highlight", steps[i].id>>
                         /\ layer[k].x = steps[i].highlight[1].x
                         /\ layer[k].y = steps[i].highlight[1].y

\* a non-empty autoHighlights list was passed along with steps that carry hints
C4_Witness ==
    /\ Compiled
    /\ input.autoHighlights # NoRef
    /\ Len(arrays[input.autoHighlights]) = 2
    /\ Hinted(input.steps, input.timestamps) # {}
    /\ Len(Deref(project.layers.highlights)) = 2

\* the steps that declare a highlight hint, with or without a timestamp
WithHint(steps) == {i \in 1..Len(steps) : Present(steps[i].highlight)}

NoAutoHighlights ==
    input.autoHighlights = NoRef \/ arrays[input.autoHighlights] = <<>>

\* the k-th smallest member of a set of indices
Nth(S, k) == CHOOSE i \in S : Cardinality({j \in S : j < i}) = k - 1

\* the highlights layer is the hints of the steps of S, in step order, each at
\* the hint's x, y and type, 5 wide and 5 high
HighlightsAre(S) ==
    LET layer == Deref(project.layers.highlights)
        steps == input.steps
    IN  /\ Len(layer) = Cardinality(S)
        /\ \A k \in 1..Len(layer) :
              LET hint == steps[Nth(S, k)].highlight[1]
              IN  /\ layer[k].id = <<"highlight", steps[Nth(S, k)].id>>
                  /\ layer[k].x = hint.x
                  /\ layer[k].y = hint.y
                  /\ layer[k].type = hint.type
                  /\ layer[k].width = 5
                  /\ layer[k].height = 5

\* C18: when autoHighlights is absent or empty, the highlights layer holds
\* exactly one highlight for each step that declares a highlight hint, in step
\* order, at the hint's x, y and type with width 5 and height 5, and none for
\* a step without a hint.
C18_HighlightPerHint ==
    (Compiled /\ NoAutoHighlights) => HighlightsAre(WithHint(input.steps))

\* C18, amended: when autoHighlights is absent or empty, the highlights layer
\* holds exactly one highlight for each step that declares a highlight hint
\* and has a timestamp with its stepId, in step order, at the hint's x, y and
\* type with width 5 and height 5, and none for any other step.
C18_HighlightPerTimedHint ==
    (Compiled /\ NoAutoHighlights) =>
        HighlightsAre(Hinted(input.steps, input.timestamps))

\* without autoHighlights, a step without a hint comes before a step with
\* one, both have timestamps, and one highlight came out
C18_Witness ==
    /\ Compiled
    /\ NoAutoHighlights
    /\ Len(input.steps) = 2
    /\ Len(input.timestamps) = 2
    /\ WithHint(input.steps) = {2}
    /\ Len(Deref(project.layers.highlights)) = 1
    /\ Deref(project.layers.highlights)[1].width = 5

\* C19: every InteractiveStep has its target at the hint's x, y with width 10,
\* height 8 and tolerance 15, a hint text made from the step's description,
\* onCorrect with feedback 'Great job!' and autoAdvance, onIncorrect with
\* showHint and maxAttempts 3, and scoring with points 10 and penalty 2.
C19_InteractiveDefaults ==
    Compiled =>
        LET steps == input.steps
            isteps == project.interactiveSteps
        IN  \A k \in 1..Len(isteps) :
              \E i \in 1..Len(steps) :
                 /\ isteps[k].id = <<"interactive", steps[i].id>>
                 /\ Present(steps[i].highlight)
                 /\ isteps[k].target.x = steps[i].highlight[1].x
                 /\ isteps[k].target.y = steps[i].highlight[1].y
                 /\ isteps[k].target.width = 10
                 /\ isteps[k].target.height = 8
                 /\ isteps[k].target.tolerance = 15
                 /\ isteps[k].hint =
                       <<"Look for the ", toLowerCase(steps[i].description)>>
                 /\ isteps[k].onCorrect.feedback = "Great job!"
                 /\ isteps[k].onCorrect.autoAdvance = TRUE
                 /\ isteps[k].onIncorrect.showHint = TRUE
                 /\ isteps[k].onIncorrect.maxAttempts = 3
                 /\ isteps[k].scoring.points = 10
                 /\ isteps[k].scoring.penaltyPerWrongClick = 2

\* a click and a type, both hinted, were compiled into two InteractiveSteps
C19_Witness ==
    /\ Compiled
    /\ Len(input.steps) = 2
    /\ input.steps[1].action = "click"
    /\ input.steps[2].action = "type"
    /\ Len(project.interactiveSteps) = 2
    /\ project.interactiveSteps[2].target.width = 10

\* C20: with generateSummary set, keyPoints is the descriptions of the steps
\* that are no wait, in step order, and chapters has one entry per navigate or
\* click step, in step order, starting at the startTime of the step's
\* timestamp; without the flag the Project has no summary.
C20_Summary ==
    Compiled =>
        LET steps == input.steps
            ts == input.timestamps
            told == {i \in 1..Len(steps) : steps[i].action # "wait"}
            major == {i \in 1..Len(steps) : steps[i].action \in {"navigate", "click"}}
            Matching(i) == {j \in 1..Len(ts) : ts[j].stepId = steps[i].id}
            First(i) == CHOOSE j \in Matching(i) : \A l \in Matching(i) : j <= l
        IN  IF input.generateSummary
            THEN /\ Len(project.layers.summary) = 1
                 /\ LET summary == project.layers.summary[1]
                    IN  /\ Len(summary.keyPoints) = Cardinality(told)
                        /\ \A k \in 1..Len(summary.keyPoints) :
                              summary.keyPoints[k] = steps[Nth(told, k)].description
                        /\ Len(summary.chapters) = Cardinality(major)
                        /\ \A k \in 1..Len(summary.chapters) :
                              Matching(Nth(major, k)) # {} =>
                                 summary.chapters[k].startTime =
                                    ts[First(Nth(major, k))].startTime
            ELSE project.layers.summary = <<>>

\* a wait step and a click step were summarised: one key point, one chapter,
\* and the chapter starts after time 0
C20_Witness ==
    /\ Compiled
    /\ input.generateSummary
    /\ Len(input.steps) = 2
    /\ input.steps[1].action = "wait"
    /\ input.steps[2].action = "click"
    /\ Len(project.layers.summary[1].keyPoints) = 1
    /\ Len(project.layers.summary[1].chapters) = 1
    /\ project.layers.summary[1].chapters[1].startTime > 0


Elements(seq) == {seq[i] : i \in 1..Len(seq)}

\* C5: in every Project assembleProject returns, and in the settings of every
\* stored StudioProject, defaultLanguage is a member of availableLanguages.
C5_DefaultLanguageAvailable ==
    /\ \A k \in 1..Len(returned) :
          returned[k].defaultLanguage \in Elements(Deref(returned[k].availableLanguages))
    /\ \A id \in DOMAIN store :
          store[id].settings.defaultLanguage
              \in Elements(store[id].settings.availableLanguages)

\* the timestamps that name no step of the step list
Orphans(in) ==
    {j \in 1..Len(in.timestamps) : in.timestamps[j].stepId \notin StepIds(in.steps)}

\* C6: when a timestamp names a step that is not in the step list, the call
\* fails and produces no Project document.
C6_FailsFastOnUnknownStep ==
    (Orphans(input) # {} /\ outcome # "none") =>
        /\ outcome = "error"
        /\ returned = <<>>
        /\ \A d \in disk : d.doc = <<>>

C9_FreshAndUnshared ==
    [][/\ (Len(returned') > Len(returned)) =>
            /\ input' = input
            /\ InputView' = InputView
            /\ \A k \in 1..Len(returned) :
                  /\ returned[k].id # returned'[Len(returned')].id
                  /\ ProjectView(k)' = ProjectView(k)
       /\ (InputView' # InputView) =>
            \A k \in 1..Len(returned) : ProjectView(k)' = ProjectView(k)
       /\ (Len(returned') = Len(returned)) =>
            \A k \in 1..Len(returned) :
                (ProjectView(k)' # ProjectView(k)) =>
                    /\ InputView' = InputView
                    /\ \A l \in 1..Len(returned) \ {k} : ProjectView(l)' = ProjectView(l)
      ]_vars

(***************************************************************************)
(* Claims about the recorder.                                              *)
(***************************************************************************)
\* the number of steps of the script that executeStep has completed
Completed == IF pc \in {"idle", "ready"} THEN 0 ELSE cursor - 1

\* C10: the session's timestamps are one per step executed, in execution
\* order, each with startTime <= endTime, and startTime and endTime do not
\* decrease from one timestamp to the next.
C10_Timestamps ==
    LET ts == session.timestamps
    IN  /\ Len(ts) = Completed
        /\ \A j \in 1..Len(ts) :
              /\ ts[j].stepId = script[j].id
              /\ ts[j].startTime <= ts[j].endTime
        /\ \A j \in 1..(Len(ts) - 1) :
              /\ ts[j].startTime <= ts[j + 1].startTime
              /\ ts[j].endTime <= ts[j + 1].endTime

\* executeSteps has run over two steps, the first of which took time
C10_Witness ==
    /\ pc = "done"
    /\ Len(script) = 2
    /\ Len(session.timestamps) = 2
    /\ session.startTime > 0
    /\ session.timestamps[1].startTime < session.timestamps[1].endTime

(***************************************************************************)
(* Claims about the playback engine.                                       *)
(***************************************************************************)
Playing == Present(loaded) /\ Present(isession)

\* the step is a pointer event that was evaluated: an attempt was logged
Evaluated ==
    /\ Playing
    /\ lastCall'.op = "onPointerEvent"
    /\ Present(isession')
    /\ Len(isession'[1].attempts) = Len(isession[1].attempts) + 1

LastAttempt(s) == s.attempts[Len(s.attempts)]

\* a point of the viewport in hundredths of a pixel, from its percentages
PixelX(p) == p * viewport.width
PixelY(p) == p * viewport.height

\* the point lies in the rectangle grown by tolerance pixels on every side,
\* the four boundaries included
WithinTolerance(target, px, py) ==
    /\ PixelX(target.x) - 100 * target.tolerance <= PixelX(px)
    /\ PixelX(px) <= PixelX(target.x + target.width) + 100 * target.tolerance
    /\ PixelY(target.y) - 100 * target.tolerance <= PixelY(py)
    /\ PixelY(py) <= PixelY(target.y + target.height) + 100 * target.tolerance

ExampleTarget ==
    [x |-> 50, y |-> 50, width |-> 10, height |-> 8, tolerance |-> 15]
ExampleViewport == [width |-> 1280, height |-> 720]

\* C11: a pointer event at (px,py) on the current InteractiveStep is judged
\* correct iff it lies within the target rectangle grown on every side by the
\* tolerance, converted from pixels with the width and height the viewport has
\* at the time of the event; a point on the grown boundary is correct.
C11_HitTest ==
    [][/\ Evaluated =>
            LET attempt == LastAttempt(isession'[1])
            IN  attempt.isCorrect <=>
                   WithinTolerance(CurrentStep.target, attempt.clickX, attempt.clickY)
       /\ HitTest(ExampleTarget, 55, 54, ExampleViewport)
       /\ ~HitTest(ExampleTarget, 70, 70, ExampleViewport)]_vars

\* the same point was judged wrong in one viewport and, on the boundary of the
\* grown rectangle of a smaller viewport, correct
C11_Witness ==
    /\ Playing
    /\ Len(isession[1].attempts) = 2
    /\ isession[1].attempts[1].clickX = 47
    /\ ~isession[1].attempts[1].isCorrect
    /\ isession[1].attempts[2].clickX = 47
    /\ isession[1].attempts[2].isCorrect
    /\ (50 - 47) * viewport.width = 100 * 15

RECURSIVE SumSeq(_)
SumSeq(q) == IF q = <<>> THEN 0 ELSE Head(q) + SumSeq(Tail(q))

\* the wrong attempts the session logged on a step
Misses(s, id) ==
    Cardinality({i \in 1..Len(s.attempts) :
                    s.attempts[i].stepId = id /\ ~s.attempts[i].isCorrect})

C14_EmptyIsComplete ==
    (/\ Present(loaded)
     /\ Len(loaded[1].interactiveSteps) = 0
     /\ mode \in {"guide-me", "test-me"}) =>
        /\ phase = "Complete"
        /\ Present(isession)
        /\ isession[1].isComplete
        /\ isession[1].score = 0
        /\ isession[1].maxScore = 0
        /\ isession[1].attempts = <<>>

\* a Project without InteractiveSteps was just loaded in guide-me
C14_Witness ==
    /\ Present(loaded)
    /\ Len(loaded[1].interactiveSteps) = 0
    /\ mode = "guide-me"
    /\ lastCall.op = "load"
    /\ phase = "Complete"

\* C15: onTick(t) called twice in a row with the same t yields the same active
\* subtitles, highlights and questions as one call, and the second call fires
\* no one-shot effect: it does not advance currentStepIndex again.
C15_TickIdempotent ==
    [][(lastCall'.op = "onTick" /\ lastCall'.again) =>
          /\ active' = active
          /\ isession' = isession
          /\ phase' = phase
          /\ wrong' = wrong]_vars

\* the first of two equal ticks left a solved step for the next one, the
\* second found the engine waiting there
C15_Witness ==
    /\ Playing
    /\ lastCall.op = "onTick"
    /\ lastCall.again
    /\ lastCall.at = "WaitingForInput"
    /\ phase = "WaitingForInput"
    /\ isession[1].currentStepIndex = 1
    /\ LastAttempt(isession[1]).isCorrect
    /\ active.highlights # {}

\* C16: a pointer event received after the session is Complete, or in a mode
\* with no InteractiveSteps, leaves the whole Session unchanged and reports no
\* error.
C16_IgnoredPointerEvent ==
    [][(/\ lastCall'.op = "onPointerEvent"
        /\ \/ phase = "Complete"
           \/ mode = "show-me"
           \/ Present(loaded) /\ Len(loaded[1].interactiveSteps) = 0) =>
          /\ isession' = isession
          /\ phase' = phase
          /\ feedback' = feedback]_vars

\* a pointer event arrived at a session that was complete with points scored
C16_Witness ==
    /\ lastCall.op = "onPointerEvent"
    /\ lastCall.at = "Complete"
    /\ phase = "Complete"
    /\ Present(isession)
    /\ isession[1].isComplete
    /\ isession[1].score > 0
    /\ Len(isession[1].attempts) < MaxEvents

\* C17: wrong attempts are counted per InteractiveStep, from 0 each time the
\* step is entered; after maxAttempts wrong attempts the session is neither
\* complete nor locked: the hint is on display, and a later correct pointer
\* event on the step solves it and the engine moves to the next step.
C17_RetryPolicy ==
    /\ [](phase = "WaitingForInput" =>
            /\ wrong = Misses(isession[1], CurrentStep.id)
            /\ wrong >= CurrentStep.onIncorrect.maxAttempts =>
                  hintShown /\ ~isession[1].isComplete)
    /\ [][/\ (/\ phase = "WaitingForInput"
              /\ lastCall'.op = "onPointerEvent"
              /\ Len(isession[1].attempts) < MaxEvents) =>
                 /\ Evaluated
                 /\ LastAttempt(isession'[1]).attemptNumber = wrong + 1
                 /\ HitTest(CurrentStep.target, lastCall'.arg[1], lastCall'.arg[2],
                            viewport) =>
                       /\ phase' = "Correct"
                       /\ isession'[1].completedSteps =
                             Append(isession[1].completedSteps, CurrentStep.id)
          /\ (phase = "Correct" /\ lastCall'.op = "onTick") =>
                 /\ isession'[1].currentStepIndex = isession[1].currentStepIndex + 1
                 /\ wrong' = 0
                 /\ phase' \in {"WaitingForInput", "Complete"}]_vars

\* a step was solved after more wrong attempts than its maxAttempts, and the
\* engine waits at the next step with no wrong attempt counted and no hint
C17_Witness ==
    /\ Playing
    /\ phase = "WaitingForInput"
    /\ isession[1].currentStepIndex = 1
    /\ Len(isession[1].attempts) = 2
    /\ ~isession[1].attempts[1].isCorrect
    /\ isession[1].attempts[2].isCorrect
    /\ isession[1].attempts[2].attemptNumber
          > loaded[1].interactiveSteps[1].onIncorrect.maxAttempts
    /\ wrong = 0
    /\ ~hintShown

(***************************************************************************)
(* Claims about the windows and the translations of compiled layers.       *)
(***************************************************************************)
\* the timestamps are one per step, in step order, each with
\* startTime <= endTime, and no step starts before the one before it ended
RecordedInOrder(steps, ts) ==
    /\ Len(ts) = Len(steps)
    /\ \A j \in 1..Len(ts) :
          /\ ts[j].stepId = steps[j].id
          /\ ts[j].startTime <= ts[j].endTime
    /\ \A j \in 1..(Len(ts) - 1) : ts[j].endTime <= ts[j + 1].startTime

Disjoint(layer) ==
    \A a, b \in 1..Len(layer) :
        a # b => (layer[a].end <= layer[b].start \/ layer[b].end <= layer[a].start)

\* C21: in the subtitles layer and in the highlights layer of every compiled
\* Project no two distinct entries have overlapping windows [start,end), given
\* timestamps that satisfy the Timestamp contract.
C21_WindowsDisjoint ==
    (Compiled /\ RecordedInOrder(input.steps, input.timestamps)) =>
        /\ Disjoint(project.layers.subtitles)
        /\ Disjoint(Deref(project.layers.highlights))


(***************************************************************************)
(* element-detector.ts and recorder.ts: where an element is on the page.   *)
(*                                                                         *)
(* A bounding box and a viewport are in whole pixels.  A percentage is the *)
(* quotient rounded down to a whole percent: a quotient below 0 stays      *)
(* below 0 and a quotient of more than 100 stays 100 or more, and the      *)
(* boxes below are chosen so that every quotient is whole.                 *)
(***************************************************************************)
\* what boundingBox() can return: the box is relative to the viewport, so an
\* element scrolled out of view has a coordinate below 0 or beyond the viewport
Boxes ==
    [x      : {0 - 64, 0, 576, 1280},
     y      : {0 - 36, 0, 324, 1044},
     width  : {0, 128, 1280, 2560},
     height : {0, 72, 720}]

RecordingViewports == {[width |-> 1280, height |-> 720], [width |-> 640, height |-> 360]}

InView    == [x |-> 576, y |-> 324,  width |-> 128, height |-> 72]
BelowFold == [x |-> 576, y |-> 1044, width |-> 128, height |-> 72]

\* the element an ElementHandle stands for: tag, type attribute, label text,
\* isVisible(), and boundingBox() (absent: null)
Element(tag, type, name, visible, box) ==
    [tagName |-> tag, fieldType |-> type, fieldName |-> name,
     visible |-> visible, box |-> box]

\* the info element.evaluate() collects, with the action passed in
InfoOf(el, action, value) ==
    [tagName   |-> el.tagName,
     fieldName |-> el.fieldName,
     fieldType |-> el.fieldType,
     action    |-> action,
     value     |-> value]

\* detectElement(page, element, action, value): null without a viewport or a
\* bounding box; x, y are the centre of the box
detectElement(vp, el, action, value) ==
    IF ~Present(vp) \/ ~Present(el.box) THEN <<>>
    ELSE LET box == el.box[1]
             view == vp[1]
         IN  <<[x      |-> ((2 * box.x + box.width) * 100) \div (2 * view.width),
                y      |-> ((2 * box.y + box.height) * 100) \div (2 * view.height),
                width  |-> (box.width * 100) \div view.width,
                height |-> (box.height * 100) \div view.height,
                info   |-> InfoOf(el, action, value)]>>

\* BrowserRecorder.getElementPosition(selector): x, y are the box's corner
getElementPosition(vp, el) ==
    IF ~Present(el.box) \/ ~Present(vp) THEN <<>>
    ELSE LET box == el.box[1]
             view == vp[1]
         IN  <<[x      |-> (box.x * 100) \div view.width,
                y      |-> (box.y * 100) \div view.height,
                width  |-> (box.width * 100) \div view.width,
                height |-> (box.height * 100) \div view.height]>>

\* the words of generateActionDescription's tables; a language the tables do
\* not have falls back to English
ActionWord(action, language) ==
    <<IF language \in {"he", "en", "ar"} THEN language ELSE "en", action>>

generateActionDescription(info, language) ==
    [words   |-> <<ActionWord(info.action, language), info.fieldName>>,
     preview |-> IF info.action = "type" /\ Present(info.value) /\ Truthy(info.value[1])
                 THEN info.value ELSE <<>>]

\* generateTranslations(info): one entry per language of its own fixed list
generateTranslations(info) ==
    [lang \in {"he", "en", "ar"} |->
        [fieldName         |-> info.fieldName,
         actionDescription |-> generateActionDescription(info, lang)]]

(***************************************************************************)
(* SpecDetect: one element, one viewport, and the two position functions.  *)
(***************************************************************************)
ProbedElements ==
    {Element("input", <<"email">>, "Email", TRUE, b) : b \in {<<>>} \cup {<<x>> : x \in Boxes}}

InitDetect ==
    /\ input = MkInput(<<>>, <<>>, DemoOptions)
    /\ arrays = MkArrays(DemoOptions)
    /\ files = AllFiles
    /\ NoCallYet
    /\ RecorderIdle
    /\ StudioIdle
    /\ PlayerIdle
    /\ recordingSessions = [s \in {} |-> <<>>]
    /\ tasks = [s \in {} |-> <<>>]
    /\ db = NoDatabase
    /\ tokens = {}
    /\ lastReq = NoRequest
    /\ \E el \in ProbedElements : \E vp \in {<<>>} \cup {<<v>> : v \in RecordingViewports} :
          probe = [NoProbe EXCEPT !.element = <<el>>, !.viewport = vp]

DetectFrame == UNCHANGED <<asmVars, recVars, stuVars, engVars, tutVars, dbVars, now>>

DetectElement ==
    /\ probe.op = "none"
    /\ probe' = [probe EXCEPT
                    !.op = "detectElement",
                    !.result = detectElement(probe.viewport, probe.element[1], "click", <<>>)]
    /\ DetectFrame

GetElementPosition ==
    /\ probe.op = "none"
    /\ probe' = [probe EXCEPT
                    !.op = "getElementPosition",
                    !.result = getElementPosition(probe.viewport, probe.element[1])]
    /\ DetectFrame

NextDetect == DetectElement \/ GetElementPosition

SpecDetect == InitDetect /\ [][NextDetect]_vars

Percentage(v) == 0 <= v /\ v <= 100

\* C23: every position detectElement or getElementPosition returns has x, y,
\* width and height between 0 and 100 inclusive, whatever the bounding box and
\* the viewport.
C23_PositionsArePercentages ==
    (probe.op \in {"detectElement", "getElementPosition"} /\ Present(probe.result)) =>
        /\ Percentage(probe.result[1].x)
        /\ Percentage(probe.result[1].y)
        /\ Percentage(probe.result[1].width)
        /\ Percentage(probe.result[1].height)


(***************************************************************************)
(* server.ts: tutorials, steps and recording sessions.                     *)
(*                                                                         *)
(* A request handler reads project.json, changes the document and writes   *)
(* it back without awaiting anything, so a handler is one step.            *)
(* startRecording is an async function: it runs up to its next await in    *)
(* one step, and any request may be served while it awaits.  tasks[s]      *)
(* holds the locals of the call made for session s and the await reached.  *)
(***************************************************************************)
MaxStudioProjects == 1  \* projects created before the first tutorial
MaxRecordings == 1      \* SpecTutorials: tutorials recorded
MaxFields == 2          \* SpecTutorials: form fields page.$$ finds on the page
MaxSessions == 2        \* SpecConcurrent: tutorials recorded, each with its session
MaxPageFields == 1      \* SpecConcurrent: form fields page.$$ finds on the page

\* Array.findIndex by id, counted from 1 (0: not found)
IndexOfId(seq, id) ==
    IF \E k \in 1..Len(seq) : seq[k].id = id
    THEN CHOOSE k \in 1..Len(seq) :
            /\ seq[k].id = id
            /\ \A j \in 1..(k - 1) : seq[j].id # id
    ELSE 0

\* Array.splice(index, 1)
Splice(seq, k) == SubSeq(seq, 1, k - 1) \o SubSeq(seq, k + 1, Len(seq))

\* the one project the recordings are made in
DemoProject ==
    [name        |-> "Gmail",
     description |-> <<>>,
     targetUrl   |-> "https://mail.example.com",
     settings    |-> <<>>]

\* a PUT /api/projects/:id made while a recording runs
Renaming ==
    [name        |-> "Webmail",
     description |-> <<>>,
     targetUrl   |-> "",
     settings    |-> <<[defaultLanguage    |-> <<>>,
                        availableLanguages |-> <<<<"he", "fr">>>>,
                        viewport           |-> <<>>]>>]

Credentials == [username |-> "demo", password |-> "secret"]

\* CreateTutorialRequest bodies
TutorialBodies ==
    [title       : {"Sign in"},
     description : {<<>>},
     prompt      : {"Show how to sign in"},
     url         : {<<>>},
     credentials : {<<>>, <<Credentials>>}]

\* the body of PUT /api/projects/:projectId/tutorials/:tutorialId
TutorialUpdates == {[title |-> "Signing in", description |-> <<>>]}

\* the locals of a startRecording call at its first await; of the project
\* object it was given, the call reads id and settings.viewport only
NewTask(captured, credentials) ==
    [pc              |-> "launch",
     project         |-> [id       |-> captured.id,
                          settings |-> [viewport |-> captured.settings.viewport]],
     credentials     |-> credentials,
     startTime       |-> 0,
     stepCounter     |-> 0,
     totalFields     |-> 0,
     visited         |-> 0,
     processedFields |-> 0,
     field           |-> <<>>]

\* app.post('/api/projects/:projectId/tutorials'), with startRecording up to
\* its first await (status 'recording', progress 5)
PostTutorial(projectId, body) ==
    IF projectId \notin DOMAIN store
    THEN /\ reply' = 404
         /\ UNCHANGED <<store, nextUuid, tutVars>>
    ELSE IF ~Truthy(body.title) \/ ~Truthy(body.prompt)
    THEN /\ reply' = 400
         /\ UNCHANGED <<store, nextUuid, tutVars>>
    ELSE LET tutorialId == nextUuid
             sessionId == nextUuid + 1
             tutorial == [id          |-> tutorialId,
                          title       |-> body.title,
                          description |-> body.description,
                          prompt      |-> body.prompt,
                          createdAt   |-> now,
                          updatedAt   |-> now,
                          duration    |-> 0,
                          steps       |-> <<>>,
                          status      |-> "recording",
                          videoFile   |-> <<>>]
             studioProject == [store[projectId] EXCEPT
                            !.tutorials = Append(@, tutorial),
                            !.updatedAt = now]
             rsession == [id         |-> sessionId,
                          projectId  |-> projectId,
                          tutorialId |-> tutorialId,
                          status     |-> "recording",
                          progress   |-> 5,
                          url        |-> IF Present(body.url) /\ Truthy(body.url[1])
                                         THEN body.url[1] ELSE studioProject.targetUrl,
                          steps      |-> <<>>,
                          videoPath  |-> <<>>,
                          error      |-> <<>>]
         IN  /\ nextUuid' = nextUuid + 2
             /\ store' = [store EXCEPT ![projectId] = studioProject]
             /\ recordingSessions' = (sessionId :> rsession) @@ recordingSessions
             /\ tasks' = (sessionId :> NewTask(studioProject, body.credentials)) @@ tasks
             /\ reply' = 200

\* app.put('/api/projects/:projectId/tutorials/:tutorialId')
PutTutorial(projectId, tutorialId, updates) ==
    IF projectId \notin DOMAIN store
           \/ IndexOfId(store[projectId].tutorials, tutorialId) = 0
    THEN /\ reply' = 404
         /\ UNCHANGED store
    ELSE LET tutorialIndex == IndexOfId(store[projectId].tutorials, tutorialId)
         IN  /\ store' = [store EXCEPT
                    ![projectId].tutorials[tutorialIndex].title =
                        IF Truthy(updates.title) THEN updates.title ELSE @,
                    ![projectId].tutorials[tutorialIndex].description =
                        IF Present(updates.description) THEN updates.description ELSE @,
                    ![projectId].tutorials[tutorialIndex].updatedAt = now,
                    ![projectId].updatedAt = now]
             /\ reply' = 200

\* app.delete('/api/projects/:projectId/tutorials/:tutorialId')
DeleteTutorial(projectId, tutorialId) ==
    IF projectId \notin DOMAIN store
           \/ IndexOfId(store[projectId].tutorials, tutorialId) = 0
    THEN /\ reply' = 404
         /\ UNCHANGED store
    ELSE LET tutorialIndex == IndexOfId(store[projectId].tutorials, tutorialId)
         IN  /\ store' = [store EXCEPT
                    ![projectId].tutorials = Splice(@, tutorialIndex),
                    ![projectId].updatedAt = now]
             /\ reply' = 200

\* steps.forEach((s, i) => { s.order = i })
Reordered(steps) == [k \in 1..Len(steps) |-> [steps[k] EXCEPT !.order = k - 1]]

\* app.delete('/api/projects/:projectId/tutorials/:tutorialId/steps/:stepId')
DeleteStep(projectId, tutorialId, stepId) ==
    IF projectId \notin DOMAIN store
           \/ IndexOfId(store[projectId].tutorials, tutorialId) = 0
    THEN /\ reply' = 404
         /\ UNCHANGED store
    ELSE LET tutorialIndex == IndexOfId(store[projectId].tutorials, tutorialId)
             steps == store[projectId].tutorials[tutorialIndex].steps
             stepIndex == IndexOfId(steps, stepId)
         IN  IF stepIndex = 0
             THEN /\ reply' = 404
                  /\ UNCHANGED store
             ELSE /\ store' = [store EXCEPT
                         ![projectId].tutorials[tutorialIndex].steps =
                             Reordered(Splice(steps, stepIndex)),
                         ![projectId].tutorials[tutorialIndex].updatedAt = now,
                         ![projectId].updatedAt = now]
                  /\ reply' = 200


(***************************************************************************)
(* startRecording(session, project, credentials), await by await.  Awaits  *)
(* between which neither the session nor project.json changes are taken    *)
(* together.                                                               *)
(***************************************************************************)
\* the form fields the recorded page can hold
HiddenInput  == Element("input", <<"hidden">>, "csrf", FALSE, <<>>)
EmailInput   == Element("input", <<"email">>, "Email", TRUE, <<BelowFold>>)
FormFields   == {HiddenInput, EmailInput}

\* the action performed on a field, and the value typed
ActionFor(el) ==
    IF el.tagName = "input" /\ el.fieldType \in {<<"email">>, <<"text">>}
    THEN [action |-> "type",
          value  |-> IF el.fieldType = <<"email">> THEN <<"demo@example.com">>
                     ELSE <<"sample text">>]
    ELSE IF el.tagName = "button" \/ el.fieldType = <<"submit">>
    THEN [action |-> "hover", value |-> <<>>]
    ELSE [action |-> "click", value |-> <<>>]

fieldProgressPerField(processedFields, totalFields) == 25 + processedFields * 40

\* 25 + Math.floor((processedFields / totalFields) * 40)
fieldProgress(processedFields, totalFields) ==
    25 + ((processedFields * 40) \div totalFields)

\* the TutorialStep built from a re-detected element
StepOf(tutorialId, stepCounter, timestamp, action, detectedElement) ==
    [id            |-> <<"step", stepCounter>>,
     order         |-> stepCounter - 1,
     timestamp     |-> timestamp,
     duration      |-> 2000,
     elementInfo   |-> detectedElement.info,
     position      |-> [x      |-> detectedElement.x,
                        y      |-> detectedElement.y,
                        width  |-> Max(detectedElement.width, 5),
                        height |-> Max(detectedElement.height, 3)],
     screenshotFile |-> <<tutorialId, "step", stepCounter>>,
     highlightType |-> IF action = "type" THEN "rectangle" ELSE "pulse",
     translations  |-> generateTranslations(detectedElement.info)]

TutorialFrame ==
    UNCHANGED <<input, arrays, files, outcome, returned, disk, now, recVars, engVars,
                dbVars, detVars>>

\* a step of the recording of session s: project.json and the ids stay
Recording(s, at) ==
    /\ s \in DOMAIN tasks
    /\ tasks[s].pc = at
    /\ UNCHANGED <<nextUuid, reply>>
    /\ TutorialFrame

Progress(s, progress, task) ==
    /\ recordingSessions' = [recordingSessions EXCEPT ![s].progress = progress]
    /\ tasks' = [tasks EXCEPT ![s] = task]

\* chromium.launch, newContext, newPage returned
Launched(s) ==
    /\ Recording(s, "launch")
    /\ Progress(s, 10, [tasks[s] EXCEPT !.pc = "goto", !.startTime = now, !.stepCounter = 0])
    /\ UNCHANGED store

\* page.goto and the two-second wait returned; credentials is not read after
\* the branch on it, and is dropped from the locals
Navigated(s) ==
    /\ Recording(s, "goto")
    /\ IF Present(tasks[s].credentials)
             /\ Truthy(tasks[s].credentials[1].username)
             /\ Truthy(tasks[s].credentials[1].password)
       THEN Progress(s, 15, [tasks[s] EXCEPT !.pc = "login", !.credentials = <<>>])
       ELSE Progress(s, 25, [tasks[s] EXCEPT !.pc = "query", !.credentials = <<>>])
    /\ UNCHANGED store

\* the login form was filled and submitted
LoggedIn(s) ==
    /\ Recording(s, "login")
    /\ Progress(s, 25, [tasks[s] EXCEPT !.pc = "query"])
    /\ UNCHANGED store

\* page.$$ returned totalFields form fields
Queried(s, totalFields) ==
    /\ Recording(s, "query")
    /\ tasks' = [tasks EXCEPT ![s] = [@ EXCEPT !.pc = "field",
                                               !.totalFields = totalFields,
                                               !.visited = 0,
                                               !.processedFields = 0]]
    /\ UNCHANGED <<recordingSessions, store>>

\* the next field is hidden, invisible or not detected: continue
FieldSkipped(s, el) ==
    /\ Recording(s, "field")
    /\ tasks[s].visited < tasks[s].totalFields
    /\ \/ el.fieldType = <<"hidden">>
       \/ ~el.visible
       \/ ~Present(detectElement(<<tasks[s].project.settings.viewport>>, el, "click", <<>>))
    /\ tasks' = [tasks EXCEPT ![s].visited = @ + 1]
    /\ UNCHANGED <<recordingSessions, store>>

\* the next field was detected: count it and report the progress
FieldDetected(s, el) ==
    /\ Recording(s, "field")
    /\ tasks[s].visited < tasks[s].totalFields
    /\ el.fieldType # <<"hidden">>
    /\ el.visible
    /\ Present(detectElement(<<tasks[s].project.settings.viewport>>, el, "click", <<>>))
    /\ LET processedFields == tasks[s].processedFields + 1
       IN  Progress(s, fieldProgress(processedFields, tasks[s].totalFields),
                    [tasks[s] EXCEPT !.pc = "act",
                                     !.processedFields = processedFields,
                                     !.field = <<el>>])
    /\ UNCHANGED store

\* the field was scrolled into view, shot, acted on and detected again;
\* attached says whether it still has a bounding box then
FieldRecorded(s, attached) ==
    /\ Recording(s, "act")
    /\ LET task == tasks[s]
           stepCounter == task.stepCounter + 1
           timestamp == now - task.startTime
           el == [task.field[1] EXCEPT !.box = IF attached THEN <<InView>> ELSE <<>>]
           act == ActionFor(el)
           detectedElement == detectElement(<<task.project.settings.viewport>>, el,
                                            act.action, act.value)
           step == StepOf(recordingSessions[s].tutorialId, stepCounter, timestamp,
                          act.action, detectedElement[1])
       IN  /\ recordingSessions' =
                 [recordingSessions EXCEPT
                     ![s].steps = IF Present(detectedElement) THEN Append(@, step) ELSE @]
           /\ tasks' = [tasks EXCEPT ![s] = [@ EXCEPT !.pc = "field",
                                                      !.stepCounter = stepCounter,
                                                      !.visited = @ + 1,
                                                      !.field = <<>>]]
    /\ UNCHANGED store

\* every field was visited
LoopDone(s) ==
    /\ Recording(s, "field")
    /\ tasks[s].visited = tasks[s].totalFields
    /\ Progress(s, 70, [tasks[s] EXCEPT !.pc = "close"])
    /\ UNCHANGED store

\* the page was closed; video says whether page.video() gave a path
PageClosed(s, video) ==
    /\ Recording(s, "close")
    /\ recordingSessions' =
          [recordingSessions EXCEPT
              ![s].videoPath = IF video THEN <<<<"recordings", s>>>> ELSE @]
    /\ tasks' = [tasks EXCEPT ![s].pc = "shutdown"]
    /\ UNCHANGED store


CaughtStatusRecording == "recording"

\* catch: session.status = 'error'
CaughtStatus == "error"

ErrorSaveSkipped(projects, rsession) == projects

\* catch, lines 695-707: the tutorial's status becomes 'error' in the
\* project.json read at that moment, if the project and the tutorial exist
ErrorSave(projects, rsession) ==
    IF rsession.projectId \notin DOMAIN projects THEN projects
    ELSE LET tutorialIndex == IndexOfId(projects[rsession.projectId].tutorials,
                                        rsession.tutorialId)
         IN  IF tutorialIndex = 0 THEN projects
             ELSE [projects EXCEPT
                      ![rsession.projectId].tutorials[tutorialIndex].status = "error"]

\* the catch block, entered with the session at the given progress
Caught(s, progress) ==
    /\ recordingSessions' =
          [recordingSessions EXCEPT ![s] = [@ EXCEPT !.status = CaughtStatus,
                                                     !.progress = progress,
                                                     !.error = <<"Error">>]]
    /\ store' = ErrorSave(store, recordingSessions[s])
    /\ tasks' = [tasks EXCEPT ![s].pc = "failed"]

\* an awaited browser operation threw
Failed(s) ==
    /\ s \in DOMAIN tasks
    /\ tasks[s].pc \in {"launch", "goto", "login", "query", "field", "act", "close",
                        "shutdown"}
    /\ Caught(s, recordingSessions[s].progress)
    /\ UNCHANGED <<nextUuid, reply>>
    /\ TutorialFrame

SavedOnOriginal(projects, task) ==
    [projects[task.project.id] EXCEPT !.name = DemoProject.name,
                                      !.settings = DefaultSettings]

\* line 662: the document the final save starts from is project.json as it
\* is at that moment
SavedOn(projects, task) == projects[task.project.id]

\* lines 664-682: the recorded tutorial's fields and the project's updatedAt
FinalSave(projects, task, rsession, tutorialIndex) ==
    [projects EXCEPT
        ![task.project.id] =
            [SavedOn(projects, task) EXCEPT
                !.tutorials[tutorialIndex] =
                    [@ EXCEPT !.steps = rsession.steps,
                              !.duration = now - task.startTime,
                              !.status = "ready",
                              !.updatedAt = now,
                              !.videoFile = IF Present(rsession.videoPath)
                                            THEN <<<<rsession.tutorialId, "webm">>>>
                                            ELSE @],
                !.updatedAt = now]]

\* context.close and browser.close returned: the final save, then status
\* 'complete' and progress 100; copied says whether copyFileSync succeeds
BrowserClosed(s, copied) ==
    /\ Recording(s, "shutdown")
    /\ LET task == tasks[s]
           rsession == recordingSessions[s]
       IN  IF task.project.id \notin DOMAIN store
           THEN Caught(s, 85)
           ELSE LET tutorialIndex == IndexOfId(SavedOn(store, task).tutorials,
                                               rsession.tutorialId)
                IN  IF tutorialIndex # 0 /\ Present(rsession.videoPath) /\ ~copied
                    THEN Caught(s, 85)
                    ELSE /\ store' = IF tutorialIndex = 0 THEN store
                                     ELSE FinalSave(store, task, rsession, tutorialIndex)
                         /\ recordingSessions' =
                               [recordingSessions EXCEPT
                                   ![s] = [@ EXCEPT !.status = "complete",
                                                    !.progress = 100]]
                         /\ tasks' = [tasks EXCEPT ![s].pc = "done"]

(***************************************************************************)
(* SpecTutorials: a project, a tutorial recorded in it from a page of up   *)
(* to MaxFields fields, and the requests served while the recording runs.  *)
(* SpecConcurrent: the same with recordings running side by side, of       *)
(* shorter pages.                                                          *)
(***************************************************************************)
InitTutorials ==
    /\ input = MkInput(<<>>, <<>>, DemoOptions)
    /\ arrays = MkArrays(DemoOptions)
    /\ files = AllFiles
    /\ NoCallYet
    /\ RecorderIdle
    /\ StudioIdle
    /\ PlayerIdle
    /\ ServerIdle

Requests(sessions) ==
    \/ nextUuid <= MaxStudioProjects /\ PostProject(DemoProject) /\ StudioFrame
    \/ \E id \in DOMAIN store : PutProject(id, Renaming) /\ StudioFrame
    \/ \E id \in DOMAIN store : DeleteProject(id) /\ StudioFrame
    \/ \E id \in DOMAIN store : \E body \in TutorialBodies :
          /\ Cardinality(DOMAIN recordingSessions) < sessions
          /\ PostTutorial(id, body)
          /\ TutorialFrame
    \/ \E id \in DOMAIN store : \E k \in 1..Len(store[id].tutorials) :
       \E updates \in TutorialUpdates :
          /\ PutTutorial(id, store[id].tutorials[k].id, updates)
          /\ UNCHANGED <<nextUuid, tutVars>>
          /\ TutorialFrame
    \/ \E id \in DOMAIN store : \E k \in 1..Len(store[id].tutorials) :
          /\ DeleteTutorial(id, store[id].tutorials[k].id)
          /\ UNCHANGED <<nextUuid, tutVars>>
          /\ TutorialFrame
    \/ \E id \in DOMAIN store : \E k \in 1..Len(store[id].tutorials) :
       \E stepId \in {st.id : st \in Elements(store[id].tutorials[k].steps)} :
          /\ DeleteStep(id, store[id].tutorials[k].id, stepId)
          /\ UNCHANGED <<nextUuid, tutVars>>
          /\ TutorialFrame

Awaited(s, fields) ==
    \/ Launched(s)
    \/ Navigated(s)
    \/ LoggedIn(s)
    \/ \E totalFields \in 0..fields : Queried(s, totalFields)
    \/ \E el \in FormFields : FieldSkipped(s, el)
    \/ \E el \in FormFields : FieldDetected(s, el)
    \/ \E attached \in BOOLEAN : FieldRecorded(s, attached)
    \/ LoopDone(s)
    \/ \E video \in BOOLEAN : PageClosed(s, video)
    \/ \E copied \in BOOLEAN : BrowserClosed(s, copied)
    \/ Failed(s)

\* the uuids handed out when every project and tutorial allowed was created
Uuids(sessions) == 1..(MaxStudioProjects + 2 * sessions)

NextTutorials ==
    \/ Requests(MaxRecordings)
    \/ \E s \in Uuids(MaxRecordings) : Awaited(s, MaxFields)

SpecTutorials == InitTutorials /\ [][NextTutorials]_vars

NextConcurrent ==
    \/ Requests(MaxSessions)
    \/ \E s \in Uuids(MaxSessions) : Awaited(s, MaxPageFields)

SpecConcurrent == InitTutorials /\ [][NextConcurrent]_vars


\* the fair version: an await of a recording in progress eventually returns
\* or throws, so its continuation (or its catch block) eventually runs
SpecTutorialsFair ==
    SpecTutorials /\ \A s \in Uuids(MaxRecordings) : WF_vars(Awaited(s, MaxFields))

(***************************************************************************)
(* Claims about stored tutorials and recording sessions.                   *)
(***************************************************************************)
\* where the stored tutorials are: <<project id, index in project.tutorials>>
StoredTutorials ==
    UNION {{<<id, k>> : k \in 1..Len(store[id].tutorials)} : id \in DOMAIN store}

TutorialAt(at) == store[at[1]].tutorials[at[2]]

\* the stored tutorial a recording session records, if it still exists
Recorded(s) ==
    LET r == recordingSessions[s]
    IN  IF r.projectId \in DOMAIN store
           /\ IndexOfId(store[r.projectId].tutorials, r.tutorialId) # 0
        THEN <<store[r.projectId].tutorials[
                   IndexOfId(store[r.projectId].tutorials, r.tutorialId)]>>
        ELSE <<>>

\* C22: in every stored tutorial, each step driven by a detected element
\* carries a translations entry for every language listed in the project's
\* availableLanguages.
C22_TranslationsCoverLanguages ==
    \A at \in StoredTutorials :
        \A j \in 1..Len(TutorialAt(at).steps) :
            Elements(store[at[1]].settings.availableLanguages)
                \subseteq DOMAIN TutorialAt(at).steps[j].translations

StatusMoves ==
    {<<"pending", "recording">>, <<"recording", "complete">>, <<"recording", "error">>}

\* C24: a session's status only moves pending -> recording -> complete or
\* recording -> error, complete and error are never left, progress never
\* decreases, and in every state a request can observe progress is 100 exactly
\* when status is complete.
C24_SessionLifecycle ==
    /\ [](\A s \in DOMAIN recordingSessions :
            (recordingSessions[s].progress = 100)
                <=> (recordingSessions[s].status = "complete"))
    /\ [][\A s \in DOMAIN recordingSessions :
            /\ s \in DOMAIN recordingSessions'
            /\ recordingSessions[s].progress <= recordingSessions'[s].progress
            /\ \/ recordingSessions'[s].status = recordingSessions[s].status
               \/ <<recordingSessions[s].status, recordingSessions'[s].status>>
                      \in StatusMoves]_vars

C24_Witness ==
    \E s \in DOMAIN recordingSessions :
        /\ recordingSessions[s].status = "complete"
        /\ recordingSessions[s].progress = 100
        /\ Len(recordingSessions[s].steps) = MaxFields

\* what a save may change: the recorded tutorial's steps, duration, status,
\* updatedAt and videoFile, and the project's updatedAt
SameButRecorded(before, after, r) ==
    /\ DOMAIN after = DOMAIN before
    /\ \A id \in DOMAIN before :
          IF id # r.projectId THEN after[id] = before[id]
          ELSE /\ [after[id] EXCEPT !.tutorials = <<>>, !.updatedAt = 0]
                     = [before[id] EXCEPT !.tutorials = <<>>, !.updatedAt = 0]
               /\ Len(after[id].tutorials) = Len(before[id].tutorials)
               /\ \A k \in 1..Len(before[id].tutorials) :
                     IF before[id].tutorials[k].id # r.tutorialId
                     THEN after[id].tutorials[k] = before[id].tutorials[k]
                     ELSE /\ after[id].tutorials[k].id = r.tutorialId
                          /\ after[id].tutorials[k].title = before[id].tutorials[k].title
                          /\ after[id].tutorials[k].description
                                = before[id].tutorials[k].description
                          /\ after[id].tutorials[k].prompt = before[id].tutorials[k].prompt
                          /\ after[id].tutorials[k].createdAt
                                = before[id].tutorials[k].createdAt

\* C25: the final save and the error save of a recording keep everything the
\* requests served during the recording wrote to project.json; they change
\* only the recorded tutorial's fields and the project's updatedAt.
C25_SaveKeepsOtherWrites ==
    [][\A s \in DOMAIN tasks :
          (tasks[s].pc \notin {"done", "failed"} /\ tasks'[s].pc \in {"done", "failed"})
              => SameButRecorded(store, store', recordingSessions[s])]_vars

C25_Witness ==
    \E s \in DOMAIN tasks : \E id \in DOMAIN store :
        /\ tasks[s].pc = "done"
        /\ store[id].name = Renaming.name
        /\ Len(store[id].tutorials) = 2
        /\ store[id].tutorials[1].id = recordingSessions[s].tutorialId
        /\ store[id].tutorials[1].status = "ready"
        /\ store[id].tutorials[1].title = "Signing in"
        /\ store[id].tutorials[2].status = "recording"

C27_RecordingEnds ==
    \A s \in Uuids(MaxRecordings) :
        (s \in DOMAIN recordingSessions)
            ~> (/\ s \in DOMAIN recordingSessions
                /\ recordingSessions[s].status \in {"complete", "error"})

C27_Witness ==
    \E s \in DOMAIN recordingSessions :
        /\ recordingSessions[s].status = "complete"
        /\ tasks[s].pc = "done"
        /\ tasks[s].visited = MaxFields
        /\ Present(recordingSessions[s].videoPath)

\* C28: in every stored tutorial the steps' order fields are dense and
\* zero-based: steps[i].order = i.
C28_OrderIsDense ==
    \A at \in StoredTutorials :
        \A j \in 1..Len(TutorialAt(at).steps) :
            TutorialAt(at).steps[j].order = j - 1


(***************************************************************************)
(* The platform server: db/index.ts, middleware/auth.ts, routes/auth.ts,   *)
(* routes/users.ts and routes/tutorials.ts.                                *)
(*                                                                         *)
(* A table is the set of its rows.  better-sqlite3 is synchronous, so a    *)
(* handler is one step.  A JWT is its payload; `tokens` holds the payloads *)
(* signed with JWT_SECRET so far, and jwt.verify accepts exactly those     *)
(* (the clock does not reach their expiry).  bcrypt's hash of a password   *)
(* is the pair <<"bcrypt", password>>.                                     *)
(***************************************************************************)
MaxAccounts == 1    \* uuids the users routes may hand out
MaxRows == 4        \* uuids the tutorials routes may hand out

AdminId == 0        \* 'admin-001', the seeded administrator
DemoTutorialId == 0 \* 'demo-gmail-compose', the seeded tutorial

hashPassword(password) == <<"bcrypt", password>>
verifyPassword(password, hash) == hash = <<"bcrypt", password>>

\* SEED_DATA: the rows getDb() inserts when it opens the database
Seeded ==
    [tutorials         |-> {[id |-> DemoTutorialId, title |-> "Compose an email"]},
     tutorial_versions |-> {},
     users             |-> {[id            |-> AdminId,
                             email         |-> "admin@screenr.local",
                             password_hash |-> hashPassword("admin123"),
                             name          |-> "Admin User",
                             role          |-> "admin"]}]

\* findById(table, id): the row, or undefined
findById(table, id) ==
    IF \E row \in db[table] : row.id = id
    THEN <<CHOOSE row \in db[table] : row.id = id>>
    ELSE <<>>

\* generateToken(user): the payload jwt.sign signs
generateToken(user) == [id |-> user.id, email |-> user.email, role |-> user.role]

verifyTokenUnsigned(token) == <<token>>

\* verifyToken(token): the payload if the signature is ours, else null
verifyToken(token) == IF token \in tokens THEN <<token>> ELSE <<>>

\* a token nobody signed with JWT_SECRET
Forged == [id |-> AdminId, email |-> "admin@screenr.local", role |-> "root"]

\* the Authorization header of a request: none, or Bearer <token>
Headers == {<<>>} \cup {<<t>> : t \in tokens \cup {Forged}}

\* authMiddleware: req.user, or nothing when it answered 401
authMiddleware(header) ==
    IF ~Present(header) THEN <<>> ELSE verifyToken(header[1])

\* requireRole(...roles): the status it answers, 0 when it calls next()
requireRole(roles, user) ==
    IF ~Present(user) THEN 401
    ELSE IF user[1].role \notin roles THEN 403
    ELSE 0

\* the role the users table holds for the caller when the request is served
RoleOf(user) ==
    IF Present(user) /\ Present(findById("users", user[1].id))
    THEN <<findById("users", user[1].id)[1].role>>
    ELSE <<>>

\* the record of a request: route, req.user, the caller's role in the users
\* table, :id, the status answered, and whether a role was written
Served(op, user, on, status, roleWritten) ==
    lastReq' = [op |-> op, by |-> user, role |-> RoleOf(user), on |-> on,
                status |-> status, roleWritten |-> roleWritten]

PlatformFrame ==
    UNCHANGED <<input, arrays, files, outcome, returned, disk, now, recVars, stuVars,
                engVars, tutVars, detVars>>

\* a request answered without a write
Refused(op, user, on, status) ==
    /\ Served(op, user, on, status, FALSE)
    /\ UNCHANGED <<db, tokens, nextUuid>>

Accounts ==
    [email : {"admin@screenr.local", "dana@example.com"}, password : {"admin123"}]

\* router.post('/register')
Register(body) ==
    /\ PlatformFrame
    /\ IF ~Truthy(body.email) \/ ~Truthy(body.password)
       THEN Refused("POST /register", <<>>, nextUuid, 400)
       ELSE IF \E row \in db.users : row.email = body.email
       THEN Refused("POST /register", <<>>, nextUuid, 409)
       ELSE LET user == [id            |-> nextUuid,
                         email         |-> body.email,
                         password_hash |-> hashPassword(body.password),
                         name          |-> "Dana",
                         role          |-> "viewer"]
            IN  /\ db' = [db EXCEPT !.users = @ \cup {user}]
                /\ tokens' = tokens \cup {generateToken(user)}
                /\ nextUuid' = nextUuid + 1
                /\ Served("POST /register", <<>>, user.id, 200, FALSE)

\* router.post('/login')
Login(body) ==
    /\ PlatformFrame
    /\ UNCHANGED <<db, nextUuid>>
    /\ IF ~Truthy(body.email) \/ ~Truthy(body.password)
       THEN /\ Served("POST /login", <<>>, AdminId, 400, FALSE)
            /\ UNCHANGED tokens
       ELSE IF \E row \in db.users :
             row.email = body.email /\ verifyPassword(body.password, row.password_hash)
       THEN LET user == CHOOSE row \in db.users : row.email = body.email
            IN  /\ tokens' = tokens \cup {generateToken(user)}
                /\ Served("POST /login", <<>>, user.id, 200, FALSE)
       ELSE /\ Served("POST /login", <<>>, AdminId, 401, FALSE)
            /\ UNCHANGED tokens

\* router.get('/:id') of the users routes
GetUser(header, id) ==
    /\ PlatformFrame
    /\ LET user == authMiddleware(header)
       IN  IF ~Present(user) THEN Refused("GET /users/:id", user, id, 401)
           ELSE IF user[1].role # "admin" /\ user[1].id # id
           THEN Refused("GET /users/:id", user, id, 403)
           ELSE IF ~Present(findById("users", id))
           THEN Refused("GET /users/:id", user, id, 404)
           ELSE Refused("GET /users/:id", user, id, 200)

UserBodies ==
    [email : {"dana@example.com"}, password : {"admin123"}, role : {<<>>, <<"admin">>}]

\* router.post('/') of the users routes
CreateUser(header, body) ==
    /\ PlatformFrame
    /\ LET user == authMiddleware(header)
           status == requireRole({"admin"}, user)
       IN  IF status # 0 THEN Refused("POST /users", user, nextUuid, status)
           ELSE IF ~Truthy(body.email) \/ ~Truthy(body.password)
           THEN Refused("POST /users", user, nextUuid, 400)
           ELSE IF \E row \in db.users : row.email = body.email
           THEN Refused("POST /users", user, nextUuid, 409)
           ELSE LET created == [id            |-> nextUuid,
                                email         |-> body.email,
                                password_hash |-> hashPassword(body.password),
                                name          |-> "Dana",
                                role          |-> IF Present(body.role) THEN body.role[1]
                                                  ELSE "viewer"]
                IN  /\ db' = [db EXCEPT !.users = @ \cup {created}]
                    /\ nextUuid' = nextUuid + 1
                    /\ Served("POST /users", user, created.id, 201, TRUE)
                    /\ UNCHANGED tokens

UserUpdates == [name : {<<>>, <<"Renamed">>}, role : {<<>>, <<"admin">>, <<"viewer">>}]

\* router.put('/:id') of the users routes
UpdateUser(header, id, body) ==
    /\ PlatformFrame
    /\ LET user == authMiddleware(header)
       IN  IF ~Present(user) THEN Refused("PUT /users/:id", user, id, 401)
           ELSE IF user[1].role # "admin" /\ user[1].id # id
           THEN Refused("PUT /users/:id", user, id, 403)
           ELSE IF ~Present(findById("users", id))
           THEN Refused("PUT /users/:id", user, id, 404)
           ELSE LET old == findById("users", id)[1]
                    writesRole == Present(body.role) /\ user[1].role = "admin"
                    new == [old EXCEPT
                               !.name = IF Present(body.name) THEN body.name[1] ELSE @,
                               !.role = IF writesRole THEN body.role[1] ELSE @]
                IN  /\ db' = [db EXCEPT !.users = (@ \ {old}) \cup {new}]
                    /\ Served("PUT /users/:id", user, id, 200, writesRole)
                    /\ UNCHANGED <<tokens, nextUuid>>

\* router.delete('/:id') of the users routes
DeleteUser(header, id) ==
    /\ PlatformFrame
    /\ LET user == authMiddleware(header)
           status == requireRole({"admin"}, user)
       IN  IF status # 0 THEN Refused("DELETE /users/:id", user, id, status)
           ELSE IF ~Present(findById("users", id))
           THEN Refused("DELETE /users/:id", user, id, 404)
           ELSE IF user[1].id = id
           THEN Refused("DELETE /users/:id", user, id, 400)
           ELSE /\ db' = [db EXCEPT !.users = @ \ {findById("users", id)[1]}]
                /\ Served("DELETE /users/:id", user, id, 200, FALSE)
                /\ UNCHANGED <<tokens, nextUuid>>

(***************************************************************************)
(* SpecUsers: registration, login and the users routes.                    *)
(***************************************************************************)
InitPlatform ==
    /\ input = MkInput(<<>>, <<>>, DemoOptions)
    /\ arrays = MkArrays(DemoOptions)
    /\ files = AllFiles
    /\ NoCallYet
    /\ RecorderIdle
    /\ StudioIdle
    /\ PlayerIdle
    /\ recordingSessions = [s \in {} |-> <<>>]
    /\ tasks = [s \in {} |-> <<>>]
    /\ db = Seeded
    /\ tokens = {}
    /\ lastReq = NoRequest
    /\ probe = NoProbe

UserIds == 0..MaxAccounts

NextUsers ==
    \/ \E body \in Accounts : nextUuid <= MaxAccounts /\ Register(body)
    \/ \E body \in Accounts : Login(body)
    \/ \E header \in Headers : \E id \in UserIds : GetUser(header, id)
    \/ \E header \in Headers : \E body \in UserBodies :
          nextUuid <= MaxAccounts /\ CreateUser(header, body)
    \/ \E header \in Headers : \E id \in UserIds : \E body \in UserUpdates :
          UpdateUser(header, id, body)
    \/ \E header \in Headers : \E id \in UserIds : DeleteUser(header, id)

SpecUsers == InitPlatform /\ [][NextUsers]_vars

\* a user other than the caller was read, written, created or deleted, or a
\* role was written
Privileged ==
    /\ lastReq.status \in {200, 201}
    /\ \/ lastReq.op \in {"POST /users", "DELETE /users/:id"}
       \/ lastReq.op \in {"GET /users/:id", "PUT /users/:id"}
             /\ lastReq.on # lastReq.by[1].id
       \/ lastReq.roleWritten

\* C30: a request that changes a user's role, creates or deletes a user, or
\* reads or updates another user's record is served only for a caller whose
\* role is admin.
C30_OnlyAdmins == Privileged => lastReq.role = <<"admin">>


(***************************************************************************)
(* routes/tutorials.ts: tutorials and their versions.                      *)
(***************************************************************************)
\* the latest version row of a tutorial (ORDER BY version DESC LIMIT 1)
LastVersion(tutorialId) ==
    LET rows == {v \in db.tutorial_versions : v.tutorial_id = tutorialId}
    IN  IF rows = {} THEN <<>>
        ELSE <<CHOOSE v \in rows : \A w \in rows : w.version <= v.version>>

NextVersionFrom(lastVersion) == IF Present(lastVersion) THEN lastVersion[1].version ELSE 1

\* (lastVersion?.version || 0) + 1
NextVersion(lastVersion) ==
    (IF Present(lastVersion) THEN lastVersion[1].version ELSE 0) + 1

\* router.post('/') of the tutorials routes
CreateTutorial(header, title) ==
    /\ PlatformFrame
    /\ LET user == authMiddleware(header)
       IN  IF ~Present(user) THEN Refused("POST /tutorials", user, nextUuid, 401)
           ELSE IF ~Truthy(title) THEN Refused("POST /tutorials", user, nextUuid, 400)
           ELSE LET tutorial == [id |-> nextUuid, title |-> title]
                    version == [id           |-> nextUuid + 1,
                                tutorial_id  |-> tutorial.id,
                                version      |-> 1,
                                project_data |-> [id |-> tutorial.id, layers |-> "empty"]]
                IN  /\ db' = [db EXCEPT !.tutorials = @ \cup {tutorial},
                                        !.tutorial_versions = @ \cup {version}]
                    /\ nextUuid' = nextUuid + 2
                    /\ Served("POST /tutorials", user, tutorial.id, 201, FALSE)
                    /\ UNCHANGED tokens

\* the projectData a PUT may carry: none, or a document
ProjectData == {<<>>, <<[layers |-> "edited"]>>}

\* router.put('/:id') of the tutorials routes
UpdateTutorial(header, id, projectData) ==
    /\ PlatformFrame
    /\ LET user == authMiddleware(header)
       IN  IF ~Present(user) THEN Refused("PUT /tutorials/:id", user, id, 401)
           ELSE IF ~Present(findById("tutorials", id))
           THEN Refused("PUT /tutorials/:id", user, id, 404)
           ELSE IF ~Present(projectData)
           THEN Refused("PUT /tutorials/:id", user, id, 200)
           ELSE LET newVersion ==
                        [id           |-> nextUuid,
                         tutorial_id  |-> id,
                         version      |-> NextVersion(LastVersion(id)),
                         project_data |-> [id |-> id, layers |-> projectData[1].layers]]
                IN  /\ db' = [db EXCEPT !.tutorial_versions = @ \cup {newVersion}]
                    /\ nextUuid' = nextUuid + 1
                    /\ Served("PUT /tutorials/:id", user, id, 200, FALSE)
                    /\ UNCHANGED tokens

\* router.delete('/:id') of the tutorials routes
RemoveTutorial(header, id) ==
    /\ PlatformFrame
    /\ LET user == authMiddleware(header)
       IN  IF ~Present(user) THEN Refused("DELETE /tutorials/:id", user, id, 401)
           ELSE IF ~Present(findById("tutorials", id))
           THEN Refused("DELETE /tutorials/:id", user, id, 404)
           ELSE /\ db' = [db EXCEPT
                            !.tutorial_versions = {v \in @ : v.tutorial_id # id},
                            !.tutorials = @ \ {findById("tutorials", id)[1]}]
                /\ Served("DELETE /tutorials/:id", user, id, 200, FALSE)
                /\ UNCHANGED <<tokens, nextUuid>>

\* router.post('/:id/duplicate')
DuplicateTutorial(header, id) ==
    /\ PlatformFrame
    /\ LET user == authMiddleware(header)
       IN  IF ~Present(user) THEN Refused("POST /tutorials/:id/duplicate", user, id, 401)
           ELSE IF ~Present(findById("tutorials", id))
           THEN Refused("POST /tutorials/:id/duplicate", user, id, 404)
           ELSE LET original == findById("tutorials", id)[1]
                    newTutorial == [id |-> nextUuid, title |-> "Copy"]
                    version == LastVersion(original.id)
                    copy == [id           |-> nextUuid + 1,
                             tutorial_id  |-> newTutorial.id,
                             version      |-> 1,
                             project_data |-> [version[1].project_data EXCEPT
                                                  !.id = newTutorial.id]]
                IN  /\ db' = [db EXCEPT
                                !.tutorials = @ \cup {newTutorial},
                                !.tutorial_versions =
                                    IF Present(version) THEN @ \cup {copy} ELSE @]
                    /\ nextUuid' = nextUuid + (IF Present(version) THEN 2 ELSE 1)
                    /\ Served("POST /tutorials/:id/duplicate", user, newTutorial.id, 201,
                              FALSE)
                    /\ UNCHANGED tokens

\* router.post('/:id/versions/:versionId/restore')
RestoreVersion(header, id, versionId) ==
    /\ PlatformFrame
    /\ LET user == authMiddleware(header)
           version == findById("tutorial_versions", versionId)
       IN  IF ~Present(user) THEN Refused("POST /tutorials/:id/restore", user, id, 401)
           ELSE IF ~Present(version) \/ version[1].tutorial_id # id
           THEN Refused("POST /tutorials/:id/restore", user, id, 404)
           ELSE LET restored == [id           |-> nextUuid,
                                 tutorial_id  |-> id,
                                 version      |-> LastVersion(id)[1].version + 1,
                                 project_data |-> version[1].project_data]
                IN  /\ db' = [db EXCEPT !.tutorial_versions = @ \cup {restored}]
                    /\ nextUuid' = nextUuid + 1
                    /\ Served("POST /tutorials/:id/restore", user, id, 200, FALSE)
                    /\ UNCHANGED tokens

(***************************************************************************)
(* SpecVersions: login and the tutorials routes.                           *)
(***************************************************************************)
RowIds == 0..(MaxRows + 1)

NextVersions ==
    \/ \E body \in Accounts : Login(body)
    \/ \E header \in Headers : \E title \in {"", "Sign in"} :
          nextUuid <= MaxRows /\ CreateTutorial(header, title)
    \/ \E header \in Headers : \E id \in RowIds : \E projectData \in ProjectData :
          nextUuid <= MaxRows /\ UpdateTutorial(header, id, projectData)
    \/ \E header \in Headers : \E id \in RowIds : RemoveTutorial(header, id)
    \/ \E header \in Headers : \E id \in RowIds :
          nextUuid <= MaxRows /\ DuplicateTutorial(header, id)
    \/ \E header \in Headers : \E id \in RowIds : \E versionId \in RowIds :
          nextUuid <= MaxRows /\ RestoreVersion(header, id, versionId)

SpecVersions == InitPlatform /\ [][NextVersions]_vars

VersionsOf(rows, tutorialId) == {v.version : v \in {w \in rows : w.tutorial_id = tutorialId}}

TutorialIds(rows) == {v.tutorial_id : v \in rows}

\* C29: the version numbers of a tutorial's tutorial_versions rows are exactly
\* 1..n, one row per number; an update with projectData and a restore each
\* add one row, numbered n + 1, and leave every existing row as it is.
C29_VersionsAreDense ==
    /\ [](\A t \in TutorialIds(db.tutorial_versions) :
            LET rows == {v \in db.tutorial_versions : v.tutorial_id = t}
            IN  /\ VersionsOf(db.tutorial_versions, t) = 1..Cardinality(rows)
                /\ \A v, w \in rows : v.version = w.version => v = w)
    /\ [][(lastReq'.op \in {"PUT /tutorials/:id", "POST /tutorials/:id/restore"}
             /\ db'.tutorial_versions # db.tutorial_versions)
          => \E row \in db'.tutorial_versions :
                /\ row \notin db.tutorial_versions
                /\ db'.tutorial_versions = db.tutorial_versions \cup {row}
                /\ row.tutorial_id = lastReq'.on
                /\ row.version =
                      Cardinality(VersionsOf(db.tutorial_versions, row.tutorial_id)) + 1]_vars

C29_Witness ==
    \E v, w \in db.tutorial_versions :
        /\ lastReq.op = "POST /tutorials/:id/restore"
        /\ lastReq.status = 200
        /\ v.tutorial_id = lastReq.on
        /\ w.tutorial_id = lastReq.on
        /\ w.version = 3
        /\ v.version < 3
        /\ w.project_data = v.project_data

====
